---- MODULE Spec2Model ----
(***************************************************************************)
(* Task lifecycle of threedllm.api: the registry of task records kept by   *)
(* TaskManager, the executor coroutine _run_task of every task, the worker *)
(* threads that run generate and export, the status / result-path readers  *)
(* and the file download route.                                            *)
(*                                                                         *)
(* Scheduling follows asyncio: one coroutine occupies the event loop       *)
(* (variable running) from the moment it is resumed until it suspends at   *)
(* an await that cannot complete at once; worker threads of the default    *)
(* executor step at any time.  Progress values are kept in hundredths      *)
(* (0.05 is 5, 1.0 is 100).                                                *)
(***************************************************************************)
EXTENDS Integers, Sequences, FiniteSets, TLC

\* ---------------------------------------------------------------- bounds
MaxTasks == 2
MaxWorkers == 1

Ids == 1..MaxTasks

\* ------------------------------------------------------- inputs, outcomes
EnhancedTexts == {"a detailed chair"}
RequestFormats == {"obj", "xyz"}
\* the submissions tried: prompt and format never meet in the code (one goes
\* to the generator, the other to the exporter), so they vary together
Requests == {[prompt |-> "chair", format |-> "obj"],
             [prompt |-> "lamp", format |-> "xyz"]}
GenErrors == {"Shap-E is not installed"}
ExportErrors == {"No space left on device"}
EnhanceErrors == {"OpenAI API error: rate limited"}

NoError == "<None>"
NoPath == <<>>
NoUrl == <<>>
NoOne == <<"idle">>
Free == <<"free">>
Handler == <<"generate_3d">>
Reader == <<"get_task_status">>
PathReader == <<"get_result_path">>
Downloader == <<"download_file">>
Validator == <<"request_validation">>
Exec(t) == <<"_run_task", t>>

VARIABLES
    tasks,          \* TaskManager.tasks: task id -> the record its last
                    \* dictionary assignment or async with block installed
    mem,            \* TaskManager.tasks statement by statement: inside a
                    \* block the field assignments land one after another
    lock,           \* TaskManager._lock: Free or the unit that holds it
    running,        \* the coroutine that occupies the event loop, or NoOne
    pipeline,       \* the ThreeDPipeline handed to create_task: [vlm, available]
    handler,        \* the submission handler: [pc, task_id, prompt, use_vlm, format]
    pc,             \* per task: position of its _run_task coroutine
    args,           \* per task: the arguments _run_task was spawned with
    enhanced_prompt,\* per task: local enhanced_prompt of _run_task
    exc,            \* per task: message of the exception caught at line 165
    job,            \* per task: the call handed to run_in_executor
    genCalls,       \* per task: prompts generator.generate was called with
    enhCalls,       \* per task: number of enhance_prompt calls
    exportCalls,    \* per task: number of exporter.export calls
    files,          \* per task: state of output_dir/<task_id>.<format>
    result,         \* per task: local result of _run_task (tasks.py 145)
    form,           \* the fields the submission route in flight was called
                    \* with, or NoForm
    hist,           \* per task: the (status, progress) values its record took
    reader,         \* get_task_status in flight: the id it was called with, or 0
    resp,           \* the response the unit on the event loop is returning
    access,         \* the record access the unit on the event loop has made
                    \* in the section it is in: [op, held]
    disk,           \* the entries of the output directory by filename, as
                    \* download_file finds them
    served,         \* download_file: [request, response] of the last call
    poll,           \* one call of APIGenerator3D.generate: its position,
                    \* its locals, the clock and the calls it has made
    built,          \* _create_generation_request: the config it is called
                    \* with and the request each backend has built from it
    decoded,        \* _parse_response_to_mesh: the response it is called
                    \* with and what the call gave
    app             \* the globals of main.py read by get_pipeline, and the
                    \* calls the routes have made of it

vars == <<tasks, lock, running, pipeline, handler, pc, args, enhanced_prompt,
          exc, job, genCalls, enhCalls, exportCalls, files, hist, reader,
          resp, access, mem, result, form, disk, served, poll, built,
          decoded, app>>

\* the variables the task lifecycle leaves alone
auxVars == <<disk, served, poll, built, decoded, app>>

\* the variables of the task lifecycle
taskVars == <<tasks, lock, running, pipeline, handler, pc, args,
              enhanced_prompt, exc, job, genCalls, enhCalls, exportCalls,
              files, hist, reader, resp, access, mem, result, form>>

\* variables of one executor and its worker calls
execVars == <<pc, enhanced_prompt, exc, job, genCalls, enhCalls, exportCalls,
              files>>

\* ----------------------------------------------------------------- helpers
output_dir == "outputs"

NoArgs == [prompt |-> "", use_vlm |-> FALSE, format |-> ""]
NoJob == [kind |-> "none", st |-> "none", out |-> "none"]
IdleHandler == [pc |-> "idle", task_id |-> 0, prompt |-> "", use_vlm |-> FALSE,
                format |-> ""]
NoResp == [kind |-> "none"]
NoAccess == [op |-> "none", held |-> TRUE]
\* filenames of the output directory that are looked at, and the directory
\* with none of them present
DiskNames == {"a.obj", "b.obj"}
NoDisk == [n \in DiskNames |-> [kind |-> "absent"]]
NoServed == [request |-> "", response |-> NoResp]
\* Python's None where a string may stand, the empty dictionary, and no call
\* of generate
None == "<None>"
NoDict == [k \in {} |-> None]
NoOutcome == [kind |-> "none"]
NoPoll == [pc |-> "idle", backend |-> "", api_key |-> None, now |-> 0,
           start_time |-> 0, task_id |-> None, status_info |-> NoDict,
           sleeps |-> 0, check_end |-> 0, instant |-> TRUE,
           submits |-> 0, checks |-> 0, downloads |-> 0, parses |-> 0,
           raised |-> 0,
           file_data |-> None, outcome |-> NoOutcome]
\* no request built, no response decoded, and main.py as imported: the
\* globals of lines 43-45 are None and no route has run
NoBuilt == [config |-> <<>>, requests |-> NoDict]
NoDecoded == [response |-> NoDict, outcome |-> NoOutcome]
NoApp == [available |-> FALSE, _generator |-> None, _vlm |-> None,
          _pipeline |-> None, calls |-> 0, raises |-> 0, created |-> 0,
          last |-> NoResp]
NoForm == [prompt |-> "", use_vlm |-> FALSE, format |-> "", guidance_scale |-> 0,
           karras_steps |-> 0, max_points |-> <<>>]

\* the record create_task stores (tasks.py 64-70)
NewRecord ==
    [status |-> "pending", progress |-> 0, message |-> <<"Task created">>,
     result_path |-> NoPath, error |-> NoError]

\* self.output_dir / f"{task_id}.{format}" (tasks.py 153)
OutputPath(t, fmt) == <<output_dir, t, fmt>>

\* variant of PathName that takes the stem of the path (Path(p).stem)
PathName_Stem(p) == <<p[2], "">>

\* Path(p).name (tasks.py 184)
PathName(p) == <<p[2], p[3]>>

\* the formats _get_exporter knows (tasks.py 36-44)
ExporterFormats == {"xyz", "obj", "ply", "stl"}

\* pipeline.py 51-63: the prompt ThreeDPipeline.generate hands to the generator
\* when the enhancer returns text
PipelinePrompt(prompt, use_vlm, pl, text) ==
    IF use_vlm /\ pl.vlm /\ pl.available THEN text ELSE prompt

\* the condition of tasks.py 109 and pipeline.py 52
ShouldEnhance(use_vlm, pl) == use_vlm /\ pl.vlm /\ pl.available

At(t, blk, ph) == pc[t] = <<blk, ph>>

Record(s, p) == <<s, p>>

InitTasks ==
    /\ tasks = [i \in {} |-> NewRecord]
    /\ lock = Free
    /\ running = NoOne
    /\ pipeline \in {[vlm |-> TRUE, available |-> TRUE],
                     [vlm |-> TRUE, available |-> FALSE],
                     [vlm |-> FALSE, available |-> FALSE]}
    /\ handler = IdleHandler
    /\ pc = [t \in Ids |-> <<"none", "">>]
    /\ args = [t \in Ids |-> NoArgs]
    /\ enhanced_prompt = [t \in Ids |-> ""]
    /\ exc = [t \in Ids |-> NoError]
    /\ job = [t \in Ids |-> NoJob]
    /\ genCalls = [t \in Ids |-> <<>>]
    /\ enhCalls = [t \in Ids |-> 0]
    /\ exportCalls = [t \in Ids |-> 0]
    /\ files = [t \in Ids |-> "absent"]
    /\ hist = [t \in Ids |-> <<>>]
    /\ reader = 0
    /\ resp = NoResp
    /\ access = NoAccess
    /\ mem = [i \in {} |-> NewRecord]
    /\ result = [t \in Ids |-> "none"]
    /\ form = NoForm

\* the state after construction; the output directory is empty
Init ==
    /\ InitTasks
    /\ disk = NoDisk
    /\ served = NoServed
    /\ poll = NoPoll
    /\ built = NoBuilt
    /\ decoded = NoDecoded
    /\ app = NoApp

\* ------------------------------------------------------ request validation
\* the bounds declared at main.py 97-98, 101 and models.py 13-14, 17;
\* guidance_scale is a float and is kept in tenths (1.0 is 10)
MinGuidanceTenths == 10
MaxGuidanceTenths == 500
MinSteps == 1
MaxSteps == 256
MinPoints == 1

\* regex="^(xyz|obj|ply|stl)$" (main.py 100), Literal[...] (models.py 16)
FormFormats == {"xyz", "obj", "ply", "stl"}

\* the generation settings tried with a well-formed request: both ends of
\* every declared range, max_points absent (<<>>) or present (<<n>>)
GoodConfigs ==
    {[guidance_scale |-> MinGuidanceTenths, karras_steps |-> MinSteps,
      max_points |-> <<MinPoints>>],
     [guidance_scale |-> MaxGuidanceTenths, karras_steps |-> MaxSteps,
      max_points |-> <<>>]}

MakeForm(r, u, c) ==
    [prompt |-> r.prompt, use_vlm |-> u, format |-> r.format,
     guidance_scale |-> c.guidance_scale, karras_steps |-> c.karras_steps,
     max_points |-> c.max_points]

\* the requests tried: the well-formed ones and one request just outside
\* every declared constraint
Forms ==
    LET ok == MakeForm([prompt |-> "chair", format |-> "obj"], FALSE,
                       [guidance_scale |-> 175, karras_steps |-> 100,
                        max_points |-> <<>>])
    IN  {MakeForm(r, u, c) : r \in Requests, u \in BOOLEAN, c \in GoodConfigs}
        \cup {[ok EXCEPT !.format = "gltf"],
              [ok EXCEPT !.guidance_scale = MinGuidanceTenths - 1],
              [ok EXCEPT !.guidance_scale = MaxGuidanceTenths + 1],
              [ok EXCEPT !.karras_steps = MinSteps - 1],
              [ok EXCEPT !.karras_steps = MaxSteps + 1],
              [ok EXCEPT !.max_points = <<MinPoints - 1>>]}

\* variant of ValidForm in which karras_steps is declared with ge=1 only
ValidForm_NoStepLimit(f) ==
    /\ f.format \in FormFormats
    /\ f.guidance_scale >= MinGuidanceTenths
    /\ f.guidance_scale <= MaxGuidanceTenths
    /\ f.karras_steps >= MinSteps
    /\ \A i \in DOMAIN f.max_points : f.max_points[i] >= MinPoints

\* the constraints FastAPI / pydantic enforce before the route body runs
\* (main.py 97-101, models.py 13-17)
ValidForm(f) ==
    /\ f.format \in FormFormats
    /\ f.guidance_scale >= MinGuidanceTenths
    /\ f.guidance_scale <= MaxGuidanceTenths
    /\ f.karras_steps >= MinSteps
    /\ f.karras_steps <= MaxSteps
    /\ \A i \in DOMAIN f.max_points : f.max_points[i] >= MinPoints

\* a request that violates a declared constraint is answered 422 by the
\* framework; generate_3d and create_task are not entered
RejectForm(f) ==
    /\ running = NoOne
    /\ handler.pc = "idle"
    /\ ~ValidForm(f)
    /\ form' = f
    /\ running' = Validator
    /\ resp' = [kind |-> "http_error", code |-> 422]
    /\ UNCHANGED <<tasks, lock, pipeline, handler, args, execVars, hist,
                   reader, access, mem, result>>
    /\ UNCHANGED auxVars

\* ------------------------------------------------ generate_3d / create_task
\* main.py 94-139: the route is entered with validated form fields and calls
\* create_task, which draws a fresh uuid (tasks.py 62) and enters the lock.
SubmitEnter(prompt, use_vlm, format) ==
    /\ running = NoOne
    /\ handler.pc = "idle"
    /\ lock = Free
    /\ Cardinality(DOMAIN tasks) < MaxTasks
    /\ LET id == Cardinality(DOMAIN tasks) + 1 IN
       handler' = [pc |-> "locked", task_id |-> id, prompt |-> prompt,
                   use_vlm |-> use_vlm, format |-> format]
    /\ running' = Handler
    /\ lock' = Handler
    /\ UNCHANGED <<tasks, pipeline, args, execVars, hist, reader, resp, access>>
    /\ UNCHANGED <<mem, result>>
    /\ UNCHANGED auxVars

\* main.py 93-103: a request that passes validation enters the route
Submit(f) ==
    /\ ValidForm(f)
    /\ form' = f
    /\ SubmitEnter(f.prompt, f.use_vlm, f.format)

\* tasks.py 64-70
CreateRecord ==
    /\ running = Handler
    /\ handler.pc = "locked"
    /\ tasks' = [i \in DOMAIN tasks \cup {handler.task_id} |->
                    IF i = handler.task_id THEN NewRecord ELSE tasks[i]]
    /\ hist' = [hist EXCEPT ![handler.task_id] =
                    <<Record(NewRecord.status, NewRecord.progress)>>]
    /\ access' = [op |-> "create_task", held |-> lock = Handler]
    /\ handler' = [handler EXCEPT !.pc = "created"]
    /\ UNCHANGED <<lock, running, pipeline, args, execVars, reader, resp>>
    /\ mem' = [i \in DOMAIN mem \cup {handler.task_id} |->
                  IF i = handler.task_id THEN NewRecord ELSE mem[i]]
    /\ UNCHANGED <<result, form>>
    /\ UNCHANGED auxVars

\* tasks.py 63 (leaving the block) and 73-84: asyncio.create_task schedules
\* _run_task; it does not run it
SpawnRunTask ==
    /\ running = Handler
    /\ handler.pc = "created"
    /\ pc' = [pc EXCEPT ![handler.task_id] = <<"start", "acquire">>]
    /\ args' = [args EXCEPT ![handler.task_id] =
                    [prompt |-> handler.prompt, use_vlm |-> handler.use_vlm,
                     format |-> handler.format]]
    /\ handler' = [handler EXCEPT !.pc = "spawned"]
    /\ lock' = Free
    /\ access' = NoAccess
    /\ UNCHANGED <<tasks, running, pipeline, enhanced_prompt, exc, job,
                   genCalls, enhCalls, exportCalls, files, hist, reader, resp>>
    /\ UNCHANGED <<mem, result, form>>
    /\ UNCHANGED auxVars

\* variant of CreateTaskReturn that yields to the event loop (an await that
\* suspends) between scheduling _run_task and returning the id
CreateTaskReturn_Yields ==
    /\ handler.pc = "spawned"
    /\ \/ /\ running = Handler
          /\ running' = NoOne
          /\ UNCHANGED handler
       \/ /\ running = NoOne
          /\ running' = Handler
          /\ handler' = [handler EXCEPT !.pc = "returned"]
    /\ UNCHANGED <<tasks, lock, pipeline, args, execVars, hist, reader, resp,
                   access>>
    /\ UNCHANGED <<mem, result, form>>
    /\ UNCHANGED auxVars

\* tasks.py 86: create_task returns the id to the route without suspending
CreateTaskReturn ==
    /\ running = Handler
    /\ handler.pc = "spawned"
    /\ handler' = [handler EXCEPT !.pc = "returned"]
    /\ UNCHANGED <<tasks, lock, running, pipeline, args, execVars, hist,
                   reader, resp, access>>
    /\ UNCHANGED <<mem, result, form>>
    /\ UNCHANGED auxVars

\* main.py 141-145: the route builds its response
BuildResponse ==
    /\ running = Handler
    /\ handler.pc = "returned"
    /\ resp' = [kind |-> "generate", task_id |-> handler.task_id,
                status |-> "pending", message |-> <<"Generation task created">>]
    /\ handler' = [handler EXCEPT !.pc = "responded"]
    /\ UNCHANGED <<tasks, lock, running, pipeline, args, execVars, hist,
                   reader, access>>
    /\ UNCHANGED <<mem, result, form>>
    /\ UNCHANGED auxVars

\* the route returns and the event loop is free again
HandlerExit ==
    /\ running = Handler
    /\ handler.pc = "responded"
    /\ handler' = IdleHandler
    /\ running' = NoOne
    /\ resp' = NoResp
    /\ UNCHANGED <<tasks, lock, pipeline, args, execVars, hist, reader, access>>
    /\ form' = NoForm
    /\ UNCHANGED <<mem, result>>
    /\ UNCHANGED auxVars

\* ------------------------------------------------------- _run_task (executor)
\* the async with self._lock blocks of _run_task, in program order
LockBlocks == {"start", "enh", "gen", "exp", "complete", "fail"}

\* entering one of the async with blocks (tasks.py 103, 110, 123, 147, 159,
\* 170); the first one is where the event loop starts the spawned coroutine
Acquire(t) ==
    /\ \E b \in LockBlocks :
          /\ At(t, b, "acquire")
          /\ pc' = [pc EXCEPT ![t] = <<b, "update">>]
    /\ running \in {NoOne, Exec(t)}
    /\ lock = Free
    /\ lock' = Exec(t)
    /\ running' = Exec(t)
    /\ UNCHANGED <<tasks, pipeline, handler, args, enhanced_prompt, exc, job,
                   genCalls, enhCalls, exportCalls, files, hist, reader, resp,
                   access>>
    /\ UNCHANGED <<mem, result, form>>
    /\ UNCHANGED auxVars

\* variant of AfterBlock in which a statement after the completed block
\* raises inside the try, so that the except handler runs after completion
AfterBlock_RaiseAfterCompleted(t, b) ==
    CASE b = "start" -> IF ShouldEnhance(args[t].use_vlm, pipeline)
                        THEN <<"enh", "acquire">> ELSE <<"gen", "acquire">>
      [] b = "enh" -> <<"enhance", "call">>
      [] b = "gen" -> <<"generate", "submit">>
      [] b = "exp" -> <<"export", "submit">>
      [] b = "complete" -> <<"fail", "acquire">>
      [] OTHER -> <<"done", "">>

\* where _run_task goes on after leaving the block b (tasks.py 109, 115,
\* 129, 152; after 163 and 173 the coroutine ends)
AfterBlock(t, b) ==
    CASE b = "start" -> IF ShouldEnhance(args[t].use_vlm, pipeline)
                        THEN <<"enh", "acquire">> ELSE <<"gen", "acquire">>
      [] b = "enh" -> <<"enhance", "call">>
      [] b = "gen" -> <<"generate", "submit">>
      [] b = "exp" -> <<"export", "submit">>
      [] OTHER -> <<"done", "">>

\* variant of Release that drops the record of a task once its failure has
\* been written (a clean-up of finished tasks)
Release_EvictsFailed(t) ==
    /\ running = Exec(t)
    /\ lock = Exec(t)
    /\ \E b \in LockBlocks :
          /\ At(t, b, "release")
          /\ pc' = [pc EXCEPT ![t] = AfterBlock(t, b)]
          /\ running' = IF b \in {"complete", "fail"} THEN NoOne ELSE running
          /\ enhanced_prompt' =
                IF b = "start" /\ ~ShouldEnhance(args[t].use_vlm, pipeline)
                THEN [enhanced_prompt EXCEPT ![t] = args[t].prompt]
                ELSE enhanced_prompt
          /\ tasks' = IF b = "fail"
                      THEN [i \in DOMAIN tasks \ {t} |-> tasks[i]]
                      ELSE tasks
          /\ mem' = IF b = "fail"
                    THEN [i \in DOMAIN mem \ {t} |-> mem[i]]
                    ELSE [mem EXCEPT ![t] = tasks[t]]
    /\ lock' = Free
    /\ access' = NoAccess
    /\ UNCHANGED <<pipeline, handler, args, exc, job, genCalls,
                   enhCalls, exportCalls, files, hist, reader, resp>>
    /\ UNCHANGED <<result, form>>
    /\ UNCHANGED auxVars

\* variant of Release in which the generate call sits inside the block of
\* tasks.py 123: the lock is kept while the coroutine awaits the worker
Release_GenerateInsideBlock(t) ==
    /\ running = Exec(t)
    /\ lock = Exec(t)
    /\ \E b \in LockBlocks :
          /\ At(t, b, "release")
          /\ pc' = [pc EXCEPT ![t] = AfterBlock(t, b)]
          /\ running' = IF b \in {"complete", "fail"} THEN NoOne ELSE running
          /\ enhanced_prompt' =
                IF b = "start" /\ ~ShouldEnhance(args[t].use_vlm, pipeline)
                THEN [enhanced_prompt EXCEPT ![t] = args[t].prompt]
                ELSE enhanced_prompt
          /\ lock' = IF b = "gen" THEN lock ELSE Free
    /\ access' = NoAccess
    /\ UNCHANGED <<tasks, pipeline, handler, args, exc, job, genCalls,
                   enhCalls, exportCalls, files, hist, reader, resp>>
    /\ mem' = [mem EXCEPT ![t] = tasks[t]]
    /\ UNCHANGED <<result, form>>
    /\ UNCHANGED auxVars

\* leaving an async with block; after the first one the test of line 109
\* decides on enhancement, and line 121 keeps the submitted prompt
Release(t) ==
    /\ running = Exec(t)
    /\ lock = Exec(t)
    /\ \E b \in LockBlocks :
          /\ At(t, b, "release")
          /\ pc' = [pc EXCEPT ![t] = AfterBlock(t, b)]
          /\ running' = IF b \in {"complete", "fail"} THEN NoOne ELSE running
          /\ enhanced_prompt' =
                IF b = "start" /\ ~ShouldEnhance(args[t].use_vlm, pipeline)
                THEN [enhanced_prompt EXCEPT ![t] = args[t].prompt]
                ELSE enhanced_prompt
    /\ lock' = Free
    /\ access' = NoAccess
    /\ UNCHANGED <<tasks, pipeline, handler, args, exc, job, genCalls,
                   enhCalls, exportCalls, files, hist, reader, resp>>
    /\ mem' = [mem EXCEPT ![t] = tasks[t]]
    /\ UNCHANGED <<result, form>>
    /\ UNCHANGED auxVars

\* the record of one block after its first assignment only: the blocks at
\* tasks.py 104, 160 and 171 assign status first, the others progress
FirstAssignment(old, new) ==
    IF new.status /= old.status
    THEN [old EXCEPT !.status = new.status]
    ELSE [old EXCEPT !.progress = new.progress]

\* variant of WriteRecord that finds the record through an id kept on the
\* manager, which the latest create_task has overwritten
WriteRecord_LatestTask(t, rec) ==
    LET last == Cardinality(DOMAIN tasks) IN
    /\ tasks' = [tasks EXCEPT ![last] = rec]
    /\ hist' = [hist EXCEPT ![t] =
                   IF Record(rec.status, rec.progress) = hist[t][Len(hist[t])]
                   THEN hist[t]
                   ELSE Append(hist[t], Record(rec.status, rec.progress))]
    /\ access' = [op |-> "_run_task", held |-> lock = Exec(t)]
    /\ mem' = [mem EXCEPT ![last] = FirstAssignment(mem[last], rec)]

\* the assignments of one async with block of the executor of t: the first
\* one lands in this step, the others before the block is left (Release)
WriteRecord(t, rec) ==
    /\ tasks' = [tasks EXCEPT ![t] = rec]
    /\ hist' = [hist EXCEPT ![t] =
                   IF Record(rec.status, rec.progress) = hist[t][Len(hist[t])]
                   THEN hist[t]
                   ELSE Append(hist[t], Record(rec.status, rec.progress))]
    /\ access' = [op |-> "_run_task", held |-> lock = Exec(t)]
    /\ mem' = [mem EXCEPT ![t] = FirstAssignment(mem[t], rec)]

\* tasks.py 104-106
StartingRecord(rec) ==
    [rec EXCEPT !.status = "processing", !.progress = 5,
                !.message = <<"Starting generation...">>]

\* tasks.py 111-112
EnhancingRecord(rec) ==
    [rec EXCEPT !.progress = 10, !.message = <<"Enhancing prompt with VLM...">>]

\* tasks.py 124-125
GeneratingRecord(rec) ==
    [rec EXCEPT !.progress = 20,
                !.message = <<"Generating 3D mesh... (this may take 2-5 minutes)">>]

\* variant of ExportingRecord that also announces completion early
ExportingRecord_Early(rec) ==
    [rec EXCEPT !.status = "completed", !.progress = 80,
                !.message = <<"Exporting mesh...">>]

\* tasks.py 148-149
ExportingRecord(rec) ==
    [rec EXCEPT !.progress = 80, !.message = <<"Exporting mesh...">>]

\* variant of CompletedRecord that forgets to store the output path
CompletedRecord_NoPath(rec, path) ==
    [rec EXCEPT !.status = "completed", !.progress = 100,
                !.message = <<"Generation completed">>]

\* tasks.py 160-163
CompletedRecord(rec, path) ==
    [rec EXCEPT !.status = "completed", !.progress = 100,
                !.message = <<"Generation completed">>, !.result_path = path]

\* variant of FailedRecord that resets the progress of a failed task
FailedRecord_ResetProgress(rec, e) ==
    [rec EXCEPT !.status = "failed", !.error = e, !.progress = 0,
                !.message = <<"Generation failed: ", e>>]

\* tasks.py 171-173
FailedRecord_FullProgress(rec, e) ==
    [rec EXCEPT !.status = "failed", !.error = e, !.progress = 100,
                !.message = <<"Generation failed: ", e>>]

FailedRecord(rec, e) ==
    [rec EXCEPT !.status = "failed", !.error = e,
                !.message = <<"Generation failed: ", e>>]

\* tasks.py 104-106
UpdateStart(t) ==
    /\ running = Exec(t)
    /\ At(t, "start", "update")
    /\ WriteRecord(t, StartingRecord(tasks[t]))
    /\ pc' = [pc EXCEPT ![t] = <<"start", "release">>]
    /\ UNCHANGED <<lock, running, pipeline, handler, args, enhanced_prompt, exc,
                   job, genCalls, enhCalls, exportCalls, files, reader, resp>>
    /\ UNCHANGED <<result, form>>
    /\ UNCHANGED auxVars

\* tasks.py 110-112
UpdateEnhancing(t) ==
    /\ running = Exec(t)
    /\ At(t, "enh", "update")
    /\ WriteRecord(t, EnhancingRecord(tasks[t]))
    /\ pc' = [pc EXCEPT ![t] = <<"enh", "release">>]
    /\ UNCHANGED <<lock, running, pipeline, handler, args, enhanced_prompt, exc, job,
                   genCalls, enhCalls, exportCalls, files, reader, resp>>
    /\ UNCHANGED <<result, form>>
    /\ UNCHANGED auxVars

\* tasks.py 115-118: enhance_prompt is called on the event loop itself
EnhanceCall(t) ==
    /\ running = Exec(t)
    /\ At(t, "enhance", "call")
    /\ enhCalls' = [enhCalls EXCEPT ![t] = @ + 1]
    /\ pc' = [pc EXCEPT ![t] = <<"enhance", "return">>]
    /\ UNCHANGED <<tasks, lock, running, pipeline, handler, args,
                   enhanced_prompt, exc, job, genCalls, exportCalls, files,
                   hist, reader, resp, access>>
    /\ UNCHANGED <<mem, result, form>>
    /\ UNCHANGED auxVars

\* tasks.py 119: the enhancer returned a text (openai.py 110-121)
EnhanceReturn(t, text) ==
    /\ running = Exec(t)
    /\ At(t, "enhance", "return")
    /\ enhanced_prompt' = [enhanced_prompt EXCEPT ![t] = text]
    /\ pc' = [pc EXCEPT ![t] = <<"gen", "acquire">>]
    /\ UNCHANGED <<tasks, lock, running, pipeline, handler, args, exc, job,
                   genCalls, enhCalls, exportCalls, files, hist, reader, resp,
                   access>>
    /\ UNCHANGED <<mem, result, form>>
    /\ UNCHANGED auxVars

\* openai.py 122-124 raises; nothing between tasks.py 116 and 165 catches it
EnhanceRaise(t, e) ==
    /\ running = Exec(t)
    /\ At(t, "enhance", "return")
    /\ exc' = [exc EXCEPT ![t] = e]
    /\ pc' = [pc EXCEPT ![t] = <<"fail", "acquire">>]
    /\ UNCHANGED <<tasks, lock, running, pipeline, handler, args,
                   enhanced_prompt, job, genCalls, enhCalls, exportCalls,
                   files, hist, reader, resp, access>>
    /\ UNCHANGED <<mem, result, form>>
    /\ UNCHANGED auxVars

\* tasks.py 123-125
UpdateGenerating(t) ==
    /\ running = Exec(t)
    /\ At(t, "gen", "update")
    /\ WriteRecord(t, GeneratingRecord(tasks[t]))
    /\ pc' = [pc EXCEPT ![t] = <<"gen", "release">>]
    /\ UNCHANGED <<lock, running, pipeline, handler, args, enhanced_prompt, exc, job,
                   genCalls, enhCalls, exportCalls, files, reader, resp>>
    /\ UNCHANGED <<result, form>>
    /\ UNCHANGED auxVars

\* variant of SubmitGenerate that calls generate_with_progress from the
\* coroutine itself: the event loop stays with t until the call is over
SubmitGenerate_Inline(t) ==
    /\ running = Exec(t)
    /\ At(t, "generate", "submit")
    /\ job' = [job EXCEPT ![t] = [kind |-> "generate", st |-> "queued",
                                  out |-> "none"]]
    /\ pc' = [pc EXCEPT ![t] = <<"generate", "await">>]
    /\ UNCHANGED <<tasks, lock, pipeline, handler, args, enhanced_prompt, exc,
                   genCalls, enhCalls, exportCalls, files, hist, reader, resp,
                   access, running>>
    /\ UNCHANGED <<mem, result, form>>
    /\ UNCHANGED auxVars

\* tasks.py 129-145: run_in_executor(None, generate_with_progress), awaited
SubmitGenerate(t) ==
    /\ running = Exec(t)
    /\ At(t, "generate", "submit")
    /\ job' = [job EXCEPT ![t] = [kind |-> "generate", st |-> "queued",
                                  out |-> "none"]]
    /\ pc' = [pc EXCEPT ![t] = <<"generate", "await">>]
    /\ running' = NoOne
    /\ UNCHANGED <<tasks, lock, pipeline, handler, args, enhanced_prompt, exc,
                   genCalls, enhCalls, exportCalls, files, hist, reader, resp,
                   access>>
    /\ UNCHANGED <<mem, result, form>>
    /\ UNCHANGED auxVars

\* worker threads of the default executor that are running a call
Busy == {t \in Ids : job[t].st = "running"}

\* variant of GenerateStart that passes the submitted prompt instead of
\* enhanced_prompt
GenerateStart_RawPrompt(t) ==
    /\ job[t].kind = "generate"
    /\ job[t].st = "queued"
    /\ Cardinality(Busy) < MaxWorkers
    /\ job' = [job EXCEPT ![t].st = "running"]
    /\ genCalls' = [genCalls EXCEPT ![t] = Append(@, args[t].prompt)]
    /\ UNCHANGED <<tasks, lock, running, pipeline, handler, pc, args,
                   enhanced_prompt, exc, enhCalls, exportCalls, files, hist,
                   reader, resp, access>>
    /\ UNCHANGED <<mem, result, form>>
    /\ UNCHANGED auxVars

\* tasks.py 132-135: a worker thread calls pipeline.generator.generate
GenerateStart(t) ==
    /\ job[t].kind = "generate"
    /\ job[t].st = "queued"
    /\ Cardinality(Busy) < MaxWorkers
    /\ job' = [job EXCEPT ![t].st = "running"]
    /\ genCalls' = [genCalls EXCEPT ![t] = Append(@, enhanced_prompt[t])]
    /\ UNCHANGED <<tasks, lock, running, pipeline, handler, pc, args,
                   enhanced_prompt, exc, enhCalls, exportCalls, files, hist,
                   reader, resp, access>>
    /\ UNCHANGED <<mem, result, form>>
    /\ UNCHANGED auxVars

\* tasks.py 136: generate returned a mesh
GenerateReturn(t) ==
    /\ job[t].kind = "generate"
    /\ job[t].st = "running"
    /\ job' = [job EXCEPT ![t].st = "done", ![t].out = "ok"]
    /\ UNCHANGED <<tasks, lock, running, pipeline, handler, pc, args,
                   enhanced_prompt, exc, genCalls, enhCalls, exportCalls,
                   files, hist, reader, resp, access>>
    /\ UNCHANGED <<mem, result, form>>
    /\ UNCHANGED auxVars

\* tasks.py 137-143: generate raised; the wrapper re-raises
GenerateRaise(t, e) ==
    /\ job[t].kind = "generate"
    /\ job[t].st = "running"
    /\ job' = [job EXCEPT ![t].st = "done", ![t].out = e]
    /\ UNCHANGED <<tasks, lock, running, pipeline, handler, pc, args,
                   enhanced_prompt, exc, genCalls, enhCalls, exportCalls,
                   files, hist, reader, resp, access>>
    /\ UNCHANGED <<mem, result, form>>
    /\ UNCHANGED auxVars

\* variant of ResumeAfterGenerate that hands a failed generate call to the
\* executor once more before giving up
ResumeAfterGenerate_Retry(t) ==
    /\ running = NoOne
    /\ At(t, "generate", "await")
    /\ job[t].st = "done"
    /\ IF job[t].out = "ok"
       THEN /\ pc' = [pc EXCEPT ![t] = <<"exp", "acquire">>]
            /\ running' = Exec(t)
            /\ UNCHANGED <<exc, job>>
       ELSE IF Len(genCalls[t]) < 2
       THEN /\ job' = [job EXCEPT ![t].st = "queued", ![t].out = "none"]
            /\ UNCHANGED <<pc, running, exc>>
       ELSE /\ pc' = [pc EXCEPT ![t] = <<"fail", "acquire">>]
            /\ running' = Exec(t)
            /\ exc' = [exc EXCEPT ![t] = job[t].out]
            /\ UNCHANGED job
    /\ UNCHANGED <<tasks, lock, pipeline, handler, args, enhanced_prompt,
                   genCalls, enhCalls, exportCalls, files, hist, reader, resp,
                   access>>
    /\ result' = [result EXCEPT ![t] = IF job[t].out = "ok" THEN "mesh" ELSE @]
    /\ UNCHANGED <<mem, form>>
    /\ UNCHANGED auxVars

\* variant of ResumeAfterGenerate whose wrapper swallows the exception of
\* generate and returns None: the executor goes on to export
ResumeAfterGenerate_SwallowsError(t) ==
    /\ running = NoOne
    /\ At(t, "generate", "await")
    /\ job[t].st = "done"
    /\ running' = Exec(t)
    /\ pc' = [pc EXCEPT ![t] = <<"exp", "acquire">>]
    /\ UNCHANGED <<tasks, lock, pipeline, handler, args, enhanced_prompt, job,
                   genCalls, enhCalls, exportCalls, files, hist, reader, resp,
                   access, exc>>
    /\ result' = [result EXCEPT ![t] = IF job[t].out = "ok" THEN "mesh" ELSE @]
    /\ UNCHANGED <<mem, form>>
    /\ UNCHANGED auxVars

\* tasks.py 145: the awaited future is done and the event loop resumes t
ResumeAfterGenerate(t) ==
    /\ running = NoOne
    /\ At(t, "generate", "await")
    /\ job[t].st = "done"
    /\ running' = Exec(t)
    /\ IF job[t].out = "ok"
       THEN /\ pc' = [pc EXCEPT ![t] = <<"exp", "acquire">>]
            /\ UNCHANGED exc
       ELSE /\ pc' = [pc EXCEPT ![t] = <<"fail", "acquire">>]
            /\ exc' = [exc EXCEPT ![t] = job[t].out]
    /\ UNCHANGED <<tasks, lock, pipeline, handler, args, enhanced_prompt, job,
                   genCalls, enhCalls, exportCalls, files, hist, reader, resp,
                   access>>
    /\ result' = [result EXCEPT ![t] = IF job[t].out = "ok" THEN "mesh" ELSE @]
    /\ UNCHANGED <<mem, form>>
    /\ UNCHANGED auxVars

\* tasks.py 147-149
UpdateExporting(t) ==
    /\ running = Exec(t)
    /\ At(t, "exp", "update")
    /\ WriteRecord(t, ExportingRecord(tasks[t]))
    /\ pc' = [pc EXCEPT ![t] = <<"exp", "release">>]
    /\ UNCHANGED <<lock, running, pipeline, handler, args, enhanced_prompt, exc, job,
                   genCalls, enhCalls, exportCalls, files, reader, resp>>
    /\ UNCHANGED <<result, form>>
    /\ UNCHANGED auxVars

\* tasks.py 152-157: _get_exporter (raises on an unknown format), then
\* run_in_executor(None, exporter.export), awaited
SubmitExport(t) ==
    /\ running = Exec(t)
    /\ At(t, "export", "submit")
    /\ IF args[t].format \in ExporterFormats
       THEN /\ job' = [job EXCEPT ![t] = [kind |-> "export", st |-> "queued",
                                          out |-> "none"]]
            /\ pc' = [pc EXCEPT ![t] = <<"export", "await">>]
            /\ running' = NoOne
            /\ UNCHANGED exc
       ELSE /\ exc' = [exc EXCEPT ![t] = "Unknown format"]
            /\ pc' = [pc EXCEPT ![t] = <<"fail", "acquire">>]
            /\ UNCHANGED <<job, running>>
    /\ UNCHANGED <<tasks, lock, pipeline, handler, args, enhanced_prompt,
                   genCalls, enhCalls, exportCalls, files, hist, reader, resp,
                   access>>
    /\ UNCHANGED <<mem, result, form>>
    /\ UNCHANGED auxVars

\* tasks.py 156: a worker thread calls exporter.export(result, output_path)
ExportStart(t) ==
    /\ job[t].kind = "export"
    /\ job[t].st = "queued"
    /\ Cardinality(Busy) < MaxWorkers
    /\ job' = [job EXCEPT ![t].st = "running"]
    /\ exportCalls' = [exportCalls EXCEPT ![t] = @ + 1]
    /\ UNCHANGED <<tasks, lock, running, pipeline, handler, pc, args,
                   enhanced_prompt, exc, genCalls, enhCalls, files, hist,
                   reader, resp, access>>
    /\ UNCHANGED <<mem, result, form>>
    /\ UNCHANGED auxVars

\* xyz.py 41, ply.py 19: open(path, "w") creates the file and writing begins
ExportOpen(t) ==
    /\ job[t].kind = "export"
    /\ job[t].st = "running"
    /\ files[t] = "absent"
    /\ files' = [files EXCEPT ![t] = "partial"]
    /\ UNCHANGED <<tasks, lock, running, pipeline, handler, pc, args,
                   enhanced_prompt, exc, job, genCalls, enhCalls, exportCalls,
                   hist, reader, resp, access>>
    /\ UNCHANGED <<mem, result, form>>
    /\ UNCHANGED auxVars

\* xyz.py 41-45, ply.py 19-41: the last line is written and export returns
ExportReturn(t) ==
    /\ job[t].kind = "export"
    /\ job[t].st = "running"
    /\ files[t] = "partial"
    /\ files' = [files EXCEPT ![t] = "complete"]
    /\ job' = [job EXCEPT ![t].st = "done", ![t].out = "ok"]
    /\ UNCHANGED <<tasks, lock, running, pipeline, handler, pc, args,
                   enhanced_prompt, exc, genCalls, enhCalls, exportCalls,
                   hist, reader, resp, access>>
    /\ UNCHANGED <<mem, result, form>>
    /\ UNCHANGED auxVars

\* export raises, before opening the file or while writing it
ExportRaise(t, e) ==
    /\ job[t].kind = "export"
    /\ job[t].st = "running"
    /\ job' = [job EXCEPT ![t].st = "done", ![t].out = e]
    /\ UNCHANGED <<tasks, lock, running, pipeline, handler, pc, args,
                   enhanced_prompt, exc, genCalls, enhCalls, exportCalls,
                   files, hist, reader, resp, access>>
    /\ UNCHANGED <<mem, result, form>>
    /\ UNCHANGED auxVars

\* variant of ResumeAfterExport that wakes the coroutine only when the
\* future holds a result: an exception set on it is never retrieved
ResumeAfterExport_ResultOnly(t) ==
    /\ running = NoOne
    /\ At(t, "export", "await")
    /\ job[t].st = "done"
    /\ job[t].out = "ok"
    /\ running' = Exec(t)
    /\ pc' = [pc EXCEPT ![t] = <<"complete", "acquire">>]
    /\ UNCHANGED <<tasks, lock, pipeline, handler, args, enhanced_prompt, job,
                   genCalls, enhCalls, exportCalls, files, hist, reader, resp,
                   access, exc>>
    /\ UNCHANGED <<mem, result, form>>
    /\ UNCHANGED auxVars

\* tasks.py 154-157: the awaited export future is done, t is resumed
ResumeAfterExport(t) ==
    /\ running = NoOne
    /\ At(t, "export", "await")
    /\ job[t].st = "done"
    /\ running' = Exec(t)
    /\ IF job[t].out = "ok"
       THEN /\ pc' = [pc EXCEPT ![t] = <<"complete", "acquire">>]
            /\ UNCHANGED exc
       ELSE /\ pc' = [pc EXCEPT ![t] = <<"fail", "acquire">>]
            /\ exc' = [exc EXCEPT ![t] = job[t].out]
    /\ UNCHANGED <<tasks, lock, pipeline, handler, args, enhanced_prompt, job,
                   genCalls, enhCalls, exportCalls, files, hist, reader, resp,
                   access>>
    /\ UNCHANGED <<mem, result, form>>
    /\ UNCHANGED auxVars

\* tasks.py 160-163
UpdateCompleted(t) ==
    /\ running = Exec(t)
    /\ At(t, "complete", "update")
    /\ WriteRecord(t, CompletedRecord(tasks[t], OutputPath(t, args[t].format)))
    /\ pc' = [pc EXCEPT ![t] = <<"complete", "release">>]
    /\ UNCHANGED <<lock, running, pipeline, handler, args, enhanced_prompt, exc, job, genCalls,
                   enhCalls, exportCalls, files, reader, resp>>
    /\ UNCHANGED <<result, form>>
    /\ UNCHANGED auxVars

\* tasks.py 165-173: the handler of except Exception
UpdateFailed(t) ==
    /\ running = Exec(t)
    /\ At(t, "fail", "update")
    /\ WriteRecord(t, FailedRecord(tasks[t], exc[t]))
    /\ pc' = [pc EXCEPT ![t] = <<"fail", "release">>]
    /\ UNCHANGED <<lock, running, pipeline, handler, args, enhanced_prompt, exc, job, genCalls,
                   enhCalls, exportCalls, files, reader, resp>>
    /\ UNCHANGED <<result, form>>
    /\ UNCHANGED auxVars

\* ----------------------------------------------------------------- readers
\* variant of StatusEnter served from another thread: it waits neither for
\* the event loop nor for the lock
StatusEnter_Unsynchronized(id) ==
    /\ running \in {NoOne} \cup {Exec(t) : t \in Ids}
    /\ reader = 0
    /\ lock' = Reader
    /\ running' = Reader
    /\ reader' = id
    /\ UNCHANGED <<tasks, pipeline, handler, args, execVars, hist, resp, access>>
    /\ UNCHANGED <<mem, result, form>>
    /\ UNCHANGED auxVars

\* tasks.py 175-177, called from the route main.py 187-190
StatusEnter(id) ==
    /\ running = NoOne
    /\ reader = 0
    /\ lock = Free
    /\ lock' = Reader
    /\ running' = Reader
    /\ reader' = id
    /\ UNCHANGED <<tasks, pipeline, handler, args, execVars, hist, resp, access>>
    /\ UNCHANGED <<mem, result, form>>
    /\ UNCHANGED auxVars

\* variant of Snapshot that derives the URL from the task id as soon as the
\* task is under way, without looking at status or result_path
Snapshot_UrlFromId(id, task) ==
    [kind |-> "status", task_id |-> id, status |-> task.status,
     progress |-> task.progress, message |-> task.message,
     result_url |-> IF task.status /= "pending"
                    THEN <<"/api/files", <<id, "obj">>>>
                    ELSE NoUrl,
     error |-> task.error]

\* tasks.py 182-194: the snapshot built from the record
Snapshot(id, task) ==
    [kind |-> "status", task_id |-> id, status |-> task.status,
     progress |-> task.progress, message |-> task.message,
     result_url |-> IF task.status = "completed" /\ task.result_path /= NoPath
                    THEN <<"/api/files", PathName(task.result_path)>>
                    ELSE NoUrl,
     error |-> task.error]

\* variant of StatusRead that subscripts the dictionary: an unknown id
\* raises KeyError, which the route answers with 500
StatusRead_Subscript ==
    /\ running = Reader
    /\ reader /= 0
    /\ resp = NoResp
    /\ IF reader \in DOMAIN mem
       THEN /\ resp' = Snapshot(reader, mem[reader])
            /\ access' = [op |-> "get_task_status", held |-> lock = Reader]
       ELSE /\ resp' = [kind |-> "http_error", code |-> 500]
            /\ UNCHANGED access
    /\ UNCHANGED <<tasks, lock, running, pipeline, handler, args, execVars,
                   hist, reader>>
    /\ UNCHANGED <<mem, result, form>>
    /\ UNCHANGED auxVars

\* tasks.py 178-194 and main.py 191-193
StatusRead ==
    /\ running = Reader
    /\ reader /= 0
    /\ resp = NoResp
    /\ IF reader \in DOMAIN mem
       THEN /\ resp' = Snapshot(reader, mem[reader])
            /\ access' = [op |-> "get_task_status", held |-> lock = Reader]
       ELSE /\ resp' = [kind |-> "not_found", task_id |-> reader]
            /\ UNCHANGED access
    /\ UNCHANGED <<tasks, lock, running, pipeline, handler, args, execVars,
                   hist, reader>>
    /\ UNCHANGED <<mem, result, form>>
    /\ UNCHANGED auxVars

\* tasks.py 196-201: a plain method, it does not enter self._lock
GetResultPath(id) ==
    /\ running = NoOne
    /\ running' = PathReader
    /\ resp' = [kind |-> "result_path", task_id |-> id,
                path |-> IF /\ id \in DOMAIN mem
                            /\ mem[id].status = "completed"
                            /\ mem[id].result_path /= NoPath
                         THEN mem[id].result_path ELSE NoPath]
    /\ access' = IF id \in DOMAIN mem
                 THEN [op |-> "get_result_path", held |-> lock = PathReader]
                 ELSE access
    /\ UNCHANGED <<tasks, lock, pipeline, handler, args, execVars, hist, reader>>
    /\ UNCHANGED <<mem, result, form>>
    /\ UNCHANGED auxVars

\* ------------------------------------------- the output directory on disk
\* task_manager.output_dir.resolve() (main.py 205)
OutputDirResolved == <<"srv", "outputs">>

\* what a symbolic link in the output directory may point to: a file outside,
\* a file of a sibling directory whose name begins alike, a file below the
\* output directory, a directory, nothing
LinkTargets ==
    {[path |-> <<"etc", "passwd">>, kind |-> "file"],
     [path |-> <<"srv", "outputs_old", "a.obj">>, kind |-> "file"],
     [path |-> <<"srv", "outputs", "sub", "c.obj">>, kind |-> "file"],
     [path |-> <<"srv">>, kind |-> "dir"],
     [path |-> <<"tmp", "gone">>, kind |-> "absent"]}

\* names that resolve the same way whatever the directory holds: the
\* directory itself, its parent, and a name with separators (which the
\* route pattern of main.py 196 matches only if the server hands it over
\* that way)
FixedNames ==
    [n \in {".", "..", "../../etc/passwd"} |->
        CASE n = "." -> [path |-> OutputDirResolved, kind |-> "dir"]
          [] n = ".." -> [path |-> SubSeq(OutputDirResolved, 1,
                                         Len(OutputDirResolved) - 1),
                         kind |-> "dir"]
          [] OTHER -> [path |-> <<"etc", "passwd">>, kind |-> "file"]]

\* the filenames requested
RequestNames == DiskNames \cup DOMAIN FixedNames

DiskEntries ==
    {[kind |-> "absent"], [kind |-> "file"], [kind |-> "dir"]}
    \cup {[kind |-> "link", target |-> x] : x \in LinkTargets}

\* Path.exists() of output_dir / name; it follows links (main.py 200)
PathExists(d, name) ==
    IF name \in DOMAIN FixedNames THEN TRUE
    ELSE CASE d[name].kind = "absent" -> FALSE
           [] d[name].kind = "link" -> d[name].target.kind /= "absent"
           [] OTHER -> TRUE

\* Path.is_file() of output_dir / name; it follows links (main.py 200)
PathIsFile(d, name) ==
    IF name \in DOMAIN FixedNames THEN FixedNames[name].kind = "file"
    ELSE CASE d[name].kind = "file" -> TRUE
           [] d[name].kind = "link" -> d[name].target.kind = "file"
           [] OTHER -> FALSE

\* (output_dir / name).resolve() (main.py 205)
ResolvePath(d, name) ==
    CASE name \in DOMAIN FixedNames -> FixedNames[name].path
      [] d[name].kind = "link" -> d[name].target.path
      [] OTHER -> Append(OutputDirResolved, name)

\* Path.relative_to(base) does not raise ValueError: base is a prefix of p
\* component by component (main.py 205-206)
IsRelativeTo(p, base) ==
    /\ Len(p) >= Len(base)
    /\ SubSeq(p, 1, Len(base)) = base

\* variant of DownloadResponse without the relative_to test
DownloadResponse_NoContainmentTest(exists, isfile, resolved, ok) ==
    IF ~(exists /\ isfile)
    THEN [kind |-> "http_error", code |-> 404]
    ELSE ok

\* main.py 200-213: 404 unless the path exists and is a file, 403 unless its
\* resolved path lies in the output directory, else the FileResponse
DownloadResponse(exists, isfile, resolved, ok) ==
    IF ~(exists /\ isfile)
    THEN [kind |-> "http_error", code |-> 404]
    ELSE IF ~IsRelativeTo(resolved, OutputDirResolved)
    THEN [kind |-> "http_error", code |-> 403]
    ELSE ok

\* main.py 196-213 over any state of the output directory
ServeFile(name) ==
    /\ served = NoServed
    /\ served' = [request |-> name,
                  response |-> DownloadResponse(PathExists(disk, name),
                                   PathIsFile(disk, name),
                                   ResolvePath(disk, name),
                                   [kind |-> "file", filename |-> name,
                                    path |-> ResolvePath(disk, name)])]
    /\ UNCHANGED <<taskVars, disk, poll, built, decoded, app>>

\* the route has answered
ServeReturn ==
    /\ served /= NoServed
    /\ served' = NoServed
    /\ UNCHANGED <<taskVars, disk, poll, built, decoded, app>>

\* the {filename} parameter of a URL built at tasks.py 185 (main.py 196-197)
UrlFilename(url) == url[2]

\* task_manager.output_dir / filename (main.py 199)
FilePath(name) == <<output_dir, name[1], name[2]>>

\* the file output_dir/<name> exists (main.py 199-200)
FileExists(name) ==
    /\ name[1] \in Ids
    /\ files[name[1]] /= "absent"
    /\ args[name[1]].format = name[2]

\* main.py 196-213: the route looks at the file system only; the files
\* export writes are regular files of the output directory
DownloadFile(name) ==
    /\ running = NoOne
    /\ running' = Downloader
    /\ resp' = DownloadResponse(FileExists(name), TRUE,
                                OutputDirResolved \o <<name>>,
                                [kind |-> "file", filename |-> name,
                                 content |-> files[name[1]]])
    /\ UNCHANGED <<tasks, lock, pipeline, handler, args, execVars, hist,
                   reader, access>>
    /\ UNCHANGED <<mem, result, form>>
    /\ UNCHANGED auxVars

\* the reader or route returns its response; get_task_status leaves the lock
RouteReturn ==
    /\ running \in {Reader, PathReader, Downloader, Validator}
    /\ resp /= NoResp
    /\ resp' = NoResp
    /\ access' = NoAccess
    /\ reader' = 0
    /\ lock' = IF lock = running THEN Free ELSE lock
    /\ running' = NoOne
    /\ UNCHANGED <<tasks, pipeline, handler, args, execVars, hist>>
    /\ form' = NoForm
    /\ UNCHANGED <<mem, result>>
    /\ UNCHANGED auxVars

\* ------------------------------------------------- the remote job poller
\* max_wait and poll_interval of generate (api_base.py 114-115)
MaxWait == 300
PollInterval == 5
\* the most status checks one call of generate is followed through
MaxChecks == 61

\* the two subclasses of APIGenerator3D
Backends == {"neural4d", "instant3d"}
ClassName(b) == IF b = "neural4d" THEN "Neural4DGenerator"
                ELSE "Instant3DGenerator"

\* the api_key a generator is constructed with (api_base.py 25): none, empty,
\* blank or a key
ApiKeys == {None, "", "  ", "key"}

\* dict.get(k, default), and Python's truth value and `a or b` on strings and
\* None
Get(d, k, default) == IF k \in DOMAIN d THEN d[k] ELSE default
Falsy(v) == v \in {None, ""}
Or(a, b) == IF Falsy(a) THEN b ELSE a

\* str.strip() and str.lower() on the strings that occur here
Strip(s) == IF s = "  " THEN "" ELSE s
Lower(s) == IF s = "COMPLETED" THEN "completed" ELSE s

\* variant of is_available that accepts a blank key
is_available_NotNone(p) == p.api_key /= None

\* api_base.py 142-144
is_available(p) == p.api_key /= None /\ Strip(p.api_key) /= ""

\* what the remote service may answer ---------------------------------------
Url1 == "https://cdn/m1"
Url2 == "https://cdn/m2"
\* the error texts a backend may send; one of them reads like the poller's
\* own time-out message
ErrorTexts == {"quota exceeded", "Generation timed out"}
HttpError == [http |-> "error", text |-> "503 Server Error"]
Ok(body) == [http |-> "ok", json |-> body]

\* bodies of the answer to the submission
SubmitBodies ==
    {NoDict, ("task_id" :> "job-1"), ("id" :> "job-1"), ("job_id" :> "job-1"),
     ("task_id" :> "") @@ ("id" :> None)}
SubmitResponses == {HttpError} \cup {Ok(b) : b \in SubmitBodies}

\* bodies of the answer to a status request
RawStatuses == {"pending", "processing", "completed", "failed", "done",
                "success", "error", "in_progress", "generating", "queued",
                "COMPLETED"}
UrlKeys == {"download_url", "result_url", "file_url", "model_url"}
StatusBodies ==
    {NoDict}
    \cup {("status" :> s) : s \in RawStatuses}
    \cup {("status" :> s) @@ (u :> Url1) :
              s \in {"completed", "done"}, u \in UrlKeys}
    \cup {("status" :> "completed") @@ ("download_url" :> Url1)
              @@ ("format" :> "ply"),
          ("status" :> "completed") @@ ("download_url" :> "")
              @@ ("model_url" :> Url2) @@ ("file_url" :> Url2),
          ("status" :> "completed") @@ ("download_url" :> None)}
    \cup {("status" :> s) @@ ("error" :> e) :
              s \in {"failed", "error"}, e \in ErrorTexts}
StatusResponses == {HttpError} \cup {Ok(b) : b \in StatusBodies}

\* seconds a status request may take (its timeout is 10; neural4d.py 121,
\* instant3d.py 73) and the submission may take (timeout 30)
CheckDurations == {0, 10}
SubmitDurations == {0, 30}

\* the backends' operations --------------------------------------------------
Raise(type, msg, at) ==
    [kind |-> "raise", type |-> type, msg |-> msg, at |-> at]
Return(value) == [kind |-> "return", value |-> value]

\* neural4d.py 83-107: every exception of the block, the missing id
\* included, is wrapped in a RuntimeError
Neural4DSubmitGeneration(response) ==
    LET task_id == Or(Get(response.json, "task_id", None),
                      Or(Get(response.json, "id", None),
                         Get(response.json, "job_id", None)))
        wrapped(e) == Raise("RuntimeError",
                            "Neural4D API call failed. Original error: " \o e,
                            "submit")
    IN  IF response.http = "error" THEN wrapped(response.text)
        ELSE IF Falsy(task_id)
             THEN wrapped("No task ID returned from API. Response: ...")
             ELSE Return(task_id)

\* variant of Instant3DSubmitGeneration without the test of line 64
Instant3DSubmitGeneration_NoIdTest(response) ==
    IF response.http = "error"
    THEN Raise("HTTPError", response.text, "submit")
    ELSE Return(Or(Get(response.json, "job_id", None),
                   Or(Get(response.json, "id", None),
                      Get(response.json, "task_id", None))))

\* instant3d.py 54-67
Instant3DSubmitGeneration(response) ==
    LET task_id == Or(Get(response.json, "job_id", None),
                      Or(Get(response.json, "id", None),
                         Get(response.json, "task_id", None)))
    IN  IF response.http = "error"
        THEN Raise("HTTPError", response.text, "submit")
        ELSE IF Falsy(task_id)
             THEN Raise("RuntimeError", "No task ID returned from API",
                        "submit")
             ELSE Return(task_id)

_submit_generation(b, response) ==
    IF b = "neural4d" THEN Neural4DSubmitGeneration(response)
    ELSE Instant3DSubmitGeneration(response)

\* neural4d.py 126-138
Neural4DCheckStatus(data) ==
    LET status == Lower(Get(data, "status", "pending"))
        info == ("status" :> status)
    IN  IF status = "completed"
        THEN info
             @@ ("result_url" :>
                     Or(Get(data, "download_url", None),
                        Or(Get(data, "result_url", None),
                           Get(data, "file_url", None))))
             @@ ("format" :> Get(data, "format", "obj"))
        ELSE IF status = "failed"
             THEN info @@ ("error" :> Get(data, "error", "Generation failed"))
             ELSE info

\* instant3d.py 77-94
Instant3DCheckStatus(data) ==
    LET status == Lower(Get(data, "status", "pending"))
    IN  IF status \in {"completed", "done", "success"}
        THEN ("status" :> "completed")
             @@ ("result_url" :> Or(Get(data, "download_url", None),
                                    Get(data, "model_url", None)))
             @@ ("format" :> Get(data, "format", "obj"))
        ELSE IF status \in {"failed", "error"}
             THEN ("status" :> "failed")
                  @@ ("error" :> Get(data, "error", "Generation failed"))
             ELSE IF status \in {"processing", "generating", "in_progress"}
                  THEN ("status" :> "processing")
                  ELSE ("status" :> status)

_check_status(b, data) ==
    IF b = "neural4d" THEN Neural4DCheckStatus(data)
    ELSE Instant3DCheckStatus(data)

\* response.content of the GET of result_url (neural4d.py 140-144,
\* instant3d.py 96-100): what the service keeps under that reference
Content(result_url) == "bytes at " \o result_url

\* trimesh.load(file_data, file_type=format) turned into a MeshResult
\* (neural4d.py 146-174, instant3d.py 102-126)
MeshResult(file_data, format) ==
    [decoded_from |-> file_data, file_type |-> format, prompt |-> ""]

\* generate (api_base.py 94-140) ---------------------------------------------
TimedOutMessage == "Generation timed out"
NoResultMessage == "Generation completed but no result URL provided"
\* variant of FailedMessage without the prefix
FailedMessage_Bare(error) == error

\* the f-string of line 135
FailedMessage(error) == "Generation failed: " \o error

\* generate leaves with an exception or a value
Finish(p, outcome) == [p EXCEPT !.pc = "done", !.outcome = outcome]

\* 107-108: no usable key
PollUnavailable ==
    /\ poll.pc = "call"
    /\ ~is_available(poll)
    /\ poll' = Finish(poll,
                      Raise("RuntimeError",
                            ClassName(poll.backend)
                                \o " is not available. Check API key.",
                            "unavailable"))
    /\ UNCHANGED <<taskVars, disk, served, built, decoded, app>>

\* 111-116: the submission is answered after d seconds; the clock is read
\* once it has returned an id
PollSubmit(response, d) ==
    /\ poll.pc = "call"
    /\ is_available(poll)
    /\ LET out == _submit_generation(poll.backend, response)
           p == [poll EXCEPT !.now = @ + d, !.submits = @ + 1]
       IN  poll' = IF out.kind = "raise"
                   THEN Finish(p, out)
                   ELSE [p EXCEPT !.task_id = out.value,
                                  !.start_time = p.now,
                                  !.pc = "loop"]
    /\ UNCHANGED <<taskVars, disk, served, built, decoded, app>>

\* variant of WithinBudget with <= for <
WithinBudget_Inclusive(p) == p.now - p.start_time <= MaxWait

\* the loop condition of line 118
WithinBudget(p) == p.now - p.start_time < MaxWait

\* 118, 119, 140: the loop test; inside the budget the status request is
\* sent, outside it generate gives up
PollLoopTest ==
    /\ poll.pc = "loop"
    /\ poll.checks < MaxChecks \/ ~WithinBudget(poll)
    /\ poll' = IF WithinBudget(poll)
               THEN [poll EXCEPT !.pc = "check", !.checks = @ + 1]
               ELSE Finish(poll,
                           Raise("RuntimeError", TimedOutMessage, "budget"))
    /\ UNCHANGED <<taskVars, disk, served, built, decoded, app>>

\* variant of PollCheck that takes a failed request for pending
PollCheck_SwallowsError(response, d) ==
    /\ poll.pc = "check"
    /\ LET p == [poll EXCEPT !.now = @ + d,
                             !.check_end = poll.now + d,
                             !.instant = @ /\ d = 0]
       IN  poll' = IF response.http = "error"
                   THEN [p EXCEPT !.raised = @ + 1,
                                  !.status_info = ("status" :> "pending"),
                                  !.pc = "branch"]
                   ELSE [p EXCEPT !.status_info =
                                      _check_status(poll.backend,
                                                    response.json),
                                  !.pc = "branch"]
    /\ UNCHANGED <<taskVars, disk, served, built, decoded, app>>

\* 119: the status request is answered after d seconds
PollCheck(response, d) ==
    /\ poll.pc = "check"
    /\ LET p == [poll EXCEPT !.now = @ + d,
                             !.check_end = poll.now + d,
                             !.instant = @ /\ d = 0]
       IN  poll' = IF response.http = "error"
                   THEN Finish([p EXCEPT !.raised = @ + 1],
                               Raise("HTTPError", response.text, "check"))
                   ELSE [p EXCEPT !.status_info =
                                      _check_status(poll.backend,
                                                    response.json),
                                  !.pc = "branch"]
    /\ UNCHANGED <<taskVars, disk, served, built, decoded, app>>

\* variant of PollCompleted without the test of line 124
PollCompleted_NoUrlTest ==
    /\ poll.pc = "branch"
    /\ poll.status_info["status"] = "completed"
    /\ poll' = [poll EXCEPT !.pc = "download"]
    /\ UNCHANGED <<taskVars, disk, served, built, decoded, app>>

\* variant of PollCompleted that tests the budget again first
PollCompleted_BudgetFirst ==
    /\ poll.pc = "branch"
    /\ poll.status_info["status"] = "completed"
    /\ poll' = IF ~WithinBudget(poll)
               THEN Finish(poll,
                           Raise("RuntimeError", TimedOutMessage, "budget"))
               ELSE IF Falsy(Get(poll.status_info, "result_url", None))
                    THEN Finish(poll, Raise("RuntimeError", NoResultMessage,
                                            "no_result"))
                    ELSE [poll EXCEPT !.pc = "download"]
    /\ UNCHANGED <<taskVars, disk, served, built, decoded, app>>

\* 121-125
PollCompleted ==
    /\ poll.pc = "branch"
    /\ poll.status_info["status"] = "completed"
    /\ poll' = IF Falsy(Get(poll.status_info, "result_url", None))
               THEN Finish(poll,
                           Raise("RuntimeError", NoResultMessage, "no_result"))
               ELSE [poll EXCEPT !.pc = "download"]
    /\ UNCHANGED <<taskVars, disk, served, built, decoded, app>>

\* variant of PollDownload that downloads again after an HTTP error
PollDownload_Retry(ok) ==
    /\ poll.pc = "download"
    /\ poll' = IF ok
               THEN [poll EXCEPT !.downloads = @ + 1,
                                 !.file_data =
                                     Content(poll.status_info["result_url"]),
                                 !.pc = "parse"]
               ELSE [poll EXCEPT !.downloads = 1, !.raised = @ + 1]
    /\ UNCHANGED <<taskVars, disk, served, built, decoded, app>>

\* 127: _download_result returns the content or raises for the HTTP status
PollDownload(ok) ==
    /\ poll.pc = "download"
    /\ LET p == [poll EXCEPT !.downloads = @ + 1]
       IN  poll' = IF ok
                   THEN [p EXCEPT !.file_data =
                                      Content(poll.status_info["result_url"]),
                                  !.pc = "parse"]
                   ELSE Finish([p EXCEPT !.raised = @ + 1],
                               Raise("HTTPError", HttpError.text, "download"))
    /\ UNCHANGED <<taskVars, disk, served, built, decoded, app>>

\* 128-131: _parse_mesh returns the mesh or raises
PollParse(ok) ==
    /\ poll.pc = "parse"
    /\ LET p == [poll EXCEPT !.parses = @ + 1]
           format == Get(poll.status_info, "format", "obj")
       IN  poll' = IF ok
                   THEN Finish(p, Return(MeshResult(poll.file_data, format)))
                   ELSE Finish([p EXCEPT !.raised = @ + 1],
                               Raise("RuntimeError",
                                     "Failed to parse mesh: ...", "parse"))
    /\ UNCHANGED <<taskVars, disk, served, built, decoded, app>>

\* variant of PollFailed that drops the error text of the check
PollFailed_UnknownError ==
    /\ poll.pc = "branch"
    /\ poll.status_info["status"] = "failed"
    /\ poll' = Finish(poll,
                      Raise("RuntimeError", FailedMessage("Unknown error"),
                            "failed"))
    /\ UNCHANGED <<taskVars, disk, served, built, decoded, app>>

\* 133-135
PollFailed ==
    /\ poll.pc = "branch"
    /\ poll.status_info["status"] = "failed"
    /\ poll' = Finish(poll,
                      Raise("RuntimeError",
                            FailedMessage(Get(poll.status_info, "error",
                                              "Unknown error")),
                            "failed"))
    /\ UNCHANGED <<taskVars, disk, served, built, decoded, app>>

\* variant of PollSleep whose sleep lets no time pass
PollSleep_NoWait ==
    /\ poll.pc = "branch"
    /\ poll.status_info["status"] \notin {"completed", "failed"}
    /\ poll' = [poll EXCEPT !.sleeps = @ + 1,
                            !.status_info = NoDict,
                            !.pc = "loop"]
    /\ UNCHANGED <<taskVars, disk, served, built, decoded, app>>

\* 138: neither completed nor failed; status_info is not read again before
\* line 119 assigns it anew
PollSleep ==
    /\ poll.pc = "branch"
    /\ poll.status_info["status"] \notin {"completed", "failed"}
    /\ poll' = [poll EXCEPT !.now = @ + PollInterval,
                            !.sleeps = @ + 1,
                            !.status_info = NoDict,
                            !.pc = "loop"]
    /\ UNCHANGED <<taskVars, disk, served, built, decoded, app>>

\* ---------------------------------------------- _create_generation_request
\* a GenerationConfig, of which the builders read karras_steps only, as a
\* one-element tuple; <<>> is config = None
StepCounts == MinSteps..MaxSteps
Configs == {<<>>} \cup {<<k>> : k \in StepCounts}
ThePrompt == "a red chair"

\* neural4d.py 49-65
Neural4DRequest(prompt, config) ==
    LET request_data == ("prompt" :> prompt) @@ ("mode" :> "text_to_3d")
    IN  IF config = <<>> THEN request_data
        ELSE IF config[1] <= 64
             THEN request_data @@ ("quality" :> "fast")
             ELSE IF config[1] >= 128
                  THEN request_data @@ ("quality" :> "high")
                  ELSE request_data @@ ("quality" :> "standard")

\* variant of Instant3DRequest that answers high from 100 steps on
Instant3DRequest_HighFrom100(prompt, config) ==
    LET request_data == ("prompt" :> prompt) @@ ("type" :> "text_to_3d")
    IN  IF config = <<>> THEN request_data
        ELSE IF config[1] >= 100
             THEN request_data @@ ("quality" :> "high")
             ELSE IF config[1] <= 64
                  THEN request_data @@ ("quality" :> "fast")
                  ELSE request_data @@ ("quality" :> "standard")

\* instant3d.py 32-47
Instant3DRequest(prompt, config) ==
    LET request_data == ("prompt" :> prompt) @@ ("type" :> "text_to_3d")
    IN  IF config = <<>> THEN request_data
        ELSE IF config[1] >= 128
             THEN request_data @@ ("quality" :> "high")
             ELSE IF config[1] <= 64
                  THEN request_data @@ ("quality" :> "fast")
                  ELSE request_data @@ ("quality" :> "standard")

_create_generation_request(b, prompt, config) ==
    IF b = "neural4d" THEN Neural4DRequest(prompt, config)
    ELSE Instant3DRequest(prompt, config)

\* backend b builds its request for the config at hand (neural4d.py 71,
\* instant3d.py 53)
BuildRequest(b) ==
    /\ b \notin DOMAIN built.requests
    /\ built' = [built EXCEPT !.requests =
                     @ @@ (b :> _create_generation_request(b, ThePrompt,
                                                           built.config))]
    /\ UNCHANGED <<taskVars, disk, served, poll, decoded, app>>

\* ------------------------------------------------- _parse_response_to_mesh
\* the keys the decoder looks for, and the responses: any of the keys, each
\* with content or with null
ResponseKeys == {"vertices", "faces", "normals", "file", "mesh", "url",
                 "download_url", "data"}
ValueOf(k) == "content of " \o k
MakeResponse(f) == [k \in DOMAIN f |-> IF f[k] THEN ValueOf(k) ELSE None]
Responses ==
    {MakeResponse(f) : f \in UNION {[S -> BOOLEAN] : S \in SUBSET ResponseKeys}}

\* base64.b64decode of a string
B64Decode(s) == "decoded " \o s

\* _parse_file_to_mesh (huggingface.py 294-320): trimesh reads the bytes, or
\* the RuntimeError of line 320
ParseFileToMesh(file_data, ok, at) ==
    IF ok /\ file_data /= None
    THEN [kind |-> "return", at |-> at,
          value |-> [decoded_from |-> file_data, file_type |-> "obj",
                     prompt |-> ""]]
    ELSE Raise("RuntimeError", "Failed to parse mesh file: ...", at)

UnrecognizedMessage ==
    "Could not parse response to mesh. Response format not recognized."

\* variant of ParseResponseToMesh that tests the URL before the file
ParseResponseToMesh_UrlBeforeFile(response, ok) ==
    IF "vertices" \in DOMAIN response /\ "faces" \in DOMAIN response
    THEN [kind |-> "return", at |-> "direct",
          value |-> [vertices |-> response["vertices"],
                     faces |-> Get(response, "faces", None),
                     normals |-> Get(response, "normals", None),
                     prompt |-> ""]]
    ELSE IF "url" \in DOMAIN response \/ "download_url" \in DOMAIN response
    THEN LET url == Or(Get(response, "url", None),
                       Get(response, "download_url", None))
         IN  IF url = None
             THEN Raise("MissingSchema", "Invalid URL 'None'", "url")
             ELSE ParseFileToMesh(Content(url), ok, "url")
    ELSE IF "file" \in DOMAIN response \/ "mesh" \in DOMAIN response
    THEN LET payload == Or(Get(response, "file", None),
                           Get(response, "mesh", None))
         IN  IF payload = None
             THEN Raise("TypeError", "argument should be a bytes-like object",
                        "file")
             ELSE ParseFileToMesh(B64Decode(payload), ok, "file")
    ELSE Raise("RuntimeError", UnrecognizedMessage, "unrecognized")

\* huggingface.py 238-292; ok tells whether trimesh can read the file
ParseResponseToMesh(response, ok) ==
    IF "vertices" \in DOMAIN response /\ "faces" \in DOMAIN response
    THEN [kind |-> "return", at |-> "direct",
          value |-> [vertices |-> response["vertices"],
                     faces |-> Get(response, "faces", None),
                     normals |-> Get(response, "normals", None),
                     prompt |-> ""]]
    ELSE IF "file" \in DOMAIN response \/ "mesh" \in DOMAIN response
    THEN LET payload == Or(Get(response, "file", None),
                           Get(response, "mesh", None))
         IN  IF payload = None
             THEN Raise("TypeError", "argument should be a bytes-like object",
                        "file")
             ELSE ParseFileToMesh(B64Decode(payload), ok, "file")
    ELSE IF "url" \in DOMAIN response \/ "download_url" \in DOMAIN response
    THEN LET url == Or(Get(response, "url", None),
                       Get(response, "download_url", None))
         IN  IF url = None
             THEN Raise("MissingSchema", "Invalid URL 'None'", "url")
             ELSE ParseFileToMesh(Content(url), ok, "url")
    ELSE IF "data" \in DOMAIN response
    THEN IF response["data"] = None
         THEN ParseFileToMesh(None, ok, "data")
         ELSE ParseFileToMesh(B64Decode(response["data"]), ok, "data")
    ELSE Raise("RuntimeError", UnrecognizedMessage, "unrecognized")

\* one call of _parse_response_to_mesh (huggingface.py 348)
Decode(ok) ==
    /\ decoded.outcome = NoOutcome
    /\ decoded' = [decoded EXCEPT !.outcome =
                       ParseResponseToMesh(decoded.response, ok)]
    /\ UNCHANGED <<taskVars, disk, served, poll, built, app>>

\* ------------------------------------------------------------ get_pipeline
\* the most calls of get_pipeline one run is followed through
MaxCalls == 8

NotAvailableMessage == "Shap-E generator is not available. Please ensure shap-e is installed: pip install git+https://github.com/openai/shap-e.git"

\* main.py 64-70: the provider and the pipeline are created and cached
BuildPipeline(a) ==
    [a EXCEPT !._vlm = IF @ = None THEN "OpenAIProvider" ELSE @,
              !._pipeline = "ThreeDPipeline"]

\* main.py 48-70: the globals after the call, and what the call gave
get_pipeline(a) ==
    IF a._pipeline = None
    THEN IF a._generator = None
         THEN LET a1 == [a EXCEPT !._generator = "ShapEGenerator"]
              IN  IF ~a.available
                  THEN [app |-> a1,
                        out |-> Raise("RuntimeError", NotAvailableMessage,
                                      "get_pipeline")]
                  ELSE [app |-> BuildPipeline(a1),
                        out |-> Return("ThreeDPipeline")]
         ELSE [app |-> BuildPipeline(a), out |-> Return("ThreeDPipeline")]
    ELSE [app |-> a, out |-> Return(a._pipeline)]

\* the calls a route adds to the count
Called(a, out) ==
    [a EXCEPT !.calls = @ + 1,
              !.raises = IF out.kind = "raise" THEN @ + 1 ELSE @]

\* main.py 74-90: health_check
HealthCheck ==
    /\ app.calls < MaxCalls
    /\ LET got == get_pipeline(app)
           generator_available ==
               IF got.out.kind = "raise" THEN FALSE ELSE app.available
       IN  app' = [Called(got.app, got.out) EXCEPT !.last =
                       [kind |-> "health",
                        status |-> IF generator_available THEN "healthy"
                                   ELSE "degraded",
                        generator_available |-> generator_available]]
    /\ UNCHANGED <<taskVars, disk, served, poll, built, decoded>>

\* main.py 93-148 and 151-184: a submission by form or by JSON; the
\* RuntimeError of get_pipeline becomes the answer 500, otherwise
\* create_task is called and the answer is 202
GenerateRoute(route) ==
    /\ app.calls < MaxCalls
    /\ LET got == get_pipeline(app)
           a == Called(got.app, got.out)
       IN  app' = IF got.out.kind = "raise"
                  THEN [a EXCEPT !.last = [kind |-> "http_error",
                                           route |-> route, code |-> 500,
                                           detail |-> got.out.msg]]
                  ELSE [a EXCEPT !.created = @ + 1,
                                 !.last = [kind |-> "generate",
                                           route |-> route, code |-> 202]]
    /\ UNCHANGED <<taskVars, disk, served, poll, built, decoded>>

Next ==
    \/ \E f \in Forms : Submit(f)
    \/ \E f \in Forms : RejectForm(f)
    \/ CreateRecord
    \/ SpawnRunTask
    \/ CreateTaskReturn
    \/ BuildResponse
    \/ HandlerExit
    \/ \E t \in Ids : Acquire(t)
    \/ \E t \in Ids : Release(t)
    \/ \E t \in Ids : UpdateStart(t)
    \/ \E t \in Ids : UpdateEnhancing(t)
    \/ \E t \in Ids : EnhanceCall(t)
    \/ \E t \in Ids, x \in EnhancedTexts : EnhanceReturn(t, x)
    \/ \E t \in Ids, e \in EnhanceErrors : EnhanceRaise(t, e)
    \/ \E t \in Ids : UpdateGenerating(t)
    \/ \E t \in Ids : SubmitGenerate(t)
    \/ \E t \in Ids : GenerateStart(t)
    \/ \E t \in Ids : GenerateReturn(t)
    \/ \E t \in Ids, e \in GenErrors : GenerateRaise(t, e)
    \/ \E t \in Ids : ResumeAfterGenerate(t)
    \/ \E t \in Ids : UpdateExporting(t)
    \/ \E t \in Ids : SubmitExport(t)
    \/ \E t \in Ids : ExportStart(t)
    \/ \E t \in Ids : ExportOpen(t)
    \/ \E t \in Ids : ExportReturn(t)
    \/ \E t \in Ids, e \in ExportErrors : ExportRaise(t, e)
    \/ \E t \in Ids : ResumeAfterExport(t)
    \/ \E t \in Ids : UpdateCompleted(t)
    \/ \E t \in Ids : UpdateFailed(t)
    \/ \E id \in Ids : StatusEnter(id)
    \/ StatusRead
    \/ \E id \in Ids : GetResultPath(id)
    \/ \E t \in Ids, f \in RequestFormats : DownloadFile(<<t, f>>)
    \/ RouteReturn

\* ------------------------------------------------------------------ claims
Terminal == {"completed", "failed"}
Spawned(t) == pc[t] /= <<"none", "">>

\* position of a status in the order pending, processing, {completed, failed}
Rank(st) == CASE st = "pending" -> 0 [] st = "processing" -> 1 [] OTHER -> 2

\* C1: in every reachable state every record has result_path set and error
\* unset when completed, error set and result_path unset when failed, and
\* both unset when pending or processing.
C1_TerminalFields ==
    \A t \in DOMAIN tasks :
        /\ tasks[t].status \in {"pending", "processing", "completed", "failed"}
        /\ tasks[t].status = "completed" =>
              tasks[t].result_path /= NoPath /\ tasks[t].error = NoError
        /\ tasks[t].status = "failed" =>
              tasks[t].error /= NoError /\ tasks[t].result_path = NoPath
        /\ tasks[t].status \in {"pending", "processing"} =>
              tasks[t].result_path = NoPath /\ tasks[t].error = NoError

\* a completed record and a failed record side by side
C1_Witness ==
    \E t, u \in DOMAIN tasks :
        /\ tasks[t].status = "completed" /\ pc[t] = <<"done", "">>
        /\ tasks[u].status = "failed" /\ pc[u] = <<"done", "">>

\* C2: in every step the status of every record stays or moves forward in
\* the order pending, processing, {completed, failed} and its progress does
\* not decrease; a snapshot returned by get_task_status is the record as it
\* stands, so a later read never reports an earlier status or less progress.
C2_ForwardOnly ==
    [][/\ \A t \in DOMAIN tasks :
             /\ t \in DOMAIN tasks'
             /\ Rank(tasks'[t].status) >= Rank(tasks[t].status)
             /\ tasks'[t].progress >= tasks[t].progress
       /\ resp'.kind = "status" =>
             /\ resp'.status = tasks'[resp'.task_id].status
             /\ resp'.progress = tasks'[resp'.task_id].progress]_vars

\* a read of a task that failed during export, after its progress reached 0.8
C2_Witness ==
    /\ resp.kind = "status"
    /\ resp.status = "failed"
    /\ resp.progress = 80

\* C3: once a record is completed or failed no field of it changes again and
\* its executor has no update left to make (the failed state is written once).
C3_TerminalStable ==
    [][\A t \in DOMAIN tasks :
          tasks[t].status \in Terminal =>
              /\ tasks'[t] = tasks[t]
              /\ pc'[t] \in {<<"complete", "release">>, <<"fail", "release">>,
                             <<"done", "">>}]_vars

\* a failed task whose executor has ended while another executor is inside
\* one of its updates
C3_Witness ==
    \E t, u \in DOMAIN tasks :
        /\ tasks[t].status = "failed" /\ pc[t] = <<"done", "">>
        /\ lock = Exec(u) /\ pc[u] = <<"exp", "release">>

\* C4: when create_task has returned the id, and when the route has built its
\* response, the record of that id is pending with progress 0.0 and no result
\* or error, its executor has not started and generate has not been called.
C4_ReturnsBeforeCompute ==
    /\ handler.pc \in {"returned", "responded"} =>
          /\ handler.task_id \in DOMAIN tasks
          /\ tasks[handler.task_id] = NewRecord
          /\ pc[handler.task_id] = <<"start", "acquire">>
          /\ job[handler.task_id] = NoJob
          /\ genCalls[handler.task_id] = <<>>
    /\ resp.kind = "generate" =>
          /\ resp.task_id = handler.task_id
          /\ resp.status = tasks[resp.task_id].status
          /\ tasks[resp.task_id].progress = 0
          /\ genCalls[resp.task_id] = <<>>

\* the response for the second task is built while the first is generating
C4_Witness ==
    /\ handler.pc = "responded"
    /\ resp.kind = "generate"
    /\ \E u \in Ids : job[u].kind = "generate" /\ job[u].st = "running"

MainStages(enh) ==
    <<Record("pending", 0), Record("processing", 5)>>
    \o (IF enh THEN <<Record("processing", 10)>> ELSE <<>>)
    \o <<Record("processing", 20), Record("processing", 80),
         Record("completed", 100)>>

IsPrefix(h, s) == Len(h) <= Len(s) /\ \A i \in 1..Len(h) : h[i] = s[i]

\* h is a prefix of the stage sequence, or a prefix that stops before
\* completed followed by one failed entry that keeps the progress reached
StageSequence(h) ==
    \E enh \in BOOLEAN :
        \/ IsPrefix(h, MainStages(enh))
        \/ /\ Len(h) >= 2
           /\ IsPrefix(SubSeq(h, 1, Len(h) - 1), MainStages(enh))
           /\ h[Len(h) - 1][1] /= "completed"
           /\ h[Len(h)] = Record("failed", h[Len(h) - 1][2])

\* C5: the (status, progress) values of a record form a prefix of (pending,
\* 0.0), (processing, 0.05), optionally (processing, 0.1), (processing, 0.2),
\* (processing, 0.8), (completed, 1.0), or such a prefix ended by one failed
\* write; completed holds exactly at progress 1.0 and pending exactly at 0.0.
C5_StageSequence ==
    \A t \in DOMAIN tasks :
        /\ hist[t] /= <<>>
        /\ hist[t][Len(hist[t])] = Record(tasks[t].status, tasks[t].progress)
        /\ StageSequence(hist[t])
        /\ tasks[t].status = "completed" <=> tasks[t].progress = 100
        /\ tasks[t].status = "pending" <=> tasks[t].progress = 0

\* a task that went through every stage including enhancement
C5_Witness ==
    \E t \in DOMAIN tasks : hist[t] = MainStages(TRUE)

GenerateRaised(t) ==
    job[t].kind = "generate" /\ job[t].st = "done" /\ job[t].out \in GenErrors
ExportRaised(t) ==
    job[t].kind = "export" /\ job[t].st = "done" /\ job[t].out \in ExportErrors

\* C6: after generate or export raised for a task, generate has been called
\* exactly once, export is called at most the one time that raised (never
\* after a failed generate), and when the executor has ended the record is
\* failed with the raised message as error.
C6_RaiseFailsOnce ==
    \A t \in Ids :
        /\ GenerateRaised(t) =>
              /\ Len(genCalls[t]) = 1 /\ exportCalls[t] = 0
              /\ files[t] = "absent"
        /\ ExportRaised(t) =>
              Len(genCalls[t]) = 1 /\ exportCalls[t] = 1
        /\ (GenerateRaised(t) \/ ExportRaised(t)) =>
              /\ tasks[t].status /= "completed"
              /\ pc[t] = <<"done", "">> =>
                    /\ tasks[t].status = "failed"
                    /\ tasks[t].error = job[t].out

\* one task ended by a raising generate and one by a raising export
C6_Witness ==
    \E t, u \in DOMAIN tasks :
        /\ GenerateRaised(t) /\ pc[t] = <<"done", "">>
        /\ ExportRaised(u) /\ pc[u] = <<"done", "">>
        /\ files[u] = "partial"

\* C7 (as claimed): when enhance_prompt raised for a task, the task is not
\* failed by it and, once its executor has ended, generate has been called
\* with the submitted prompt.
C7_EnhanceFailureNotFatal ==
    \A t \in Ids :
        exc[t] \in EnhanceErrors =>
            /\ t \in DOMAIN tasks => tasks[t].status /= "failed"
            /\ pc[t] = <<"done", "">> => genCalls[t] = <<args[t].prompt>>

\* C8: a task for which use_vlm is false, the pipeline has no enhancer or the
\* enhancer is unavailable never writes progress 0.1, never calls the enhancer
\* and calls generate with the submitted prompt; any other task calls
\* generate, if at all, with the text the enhancer returned.
C8_PromptHandedToGenerator ==
    \A t \in Ids :
        Spawned(t) =>
            /\ ~ShouldEnhance(args[t].use_vlm, pipeline) =>
                  /\ \A i \in 1..Len(hist[t]) : hist[t][i][2] /= 10
                  /\ enhCalls[t] = 0
            /\ ShouldEnhance(args[t].use_vlm, pipeline) =>
                  \A i \in 1..Len(genCalls[t]) :
                      /\ enhCalls[t] = 1
                      /\ enhanced_prompt[t] \in EnhancedTexts
            /\ \A i \in 1..Len(genCalls[t]) :
                  genCalls[t][i] = PipelinePrompt(args[t].prompt, args[t].use_vlm,
                                                  pipeline, enhanced_prompt[t])

\* one task generated from the enhancer's text, another from its own prompt
C8_Witness ==
    \E t, u \in Ids :
        /\ args[t].use_vlm /\ Len(genCalls[t]) = 1
        /\ genCalls[t][1] \in EnhancedTexts
        /\ ~args[u].use_vlm /\ genCalls[u] = <<args[u].prompt>>

\* C9 (as claimed): a file is served only for a task whose status is completed.
C9_ServesOnlyCompleted ==
    resp.kind = "file" =>
        /\ resp.filename[1] \in DOMAIN tasks
        /\ tasks[resp.filename[1]].status = "completed"

\* C10 (as claimed): every access to a task record is made by a unit that
\* holds the registry lock.
C10_AccessUnderLock ==
    access.op /= "none" => access.held

\* C11: every snapshot get_task_status returns equals the whole record as an
\* update left it: the dictionary holds no half-written record of that task
\* while it is read, a completed snapshot has progress 1.0 and a result_url,
\* a failed one has an error, and its (status, progress) pair is the last
\* one an update installed.
C11_SnapshotNotTorn ==
    resp.kind = "status" =>
        /\ resp.task_id \in DOMAIN tasks
        /\ mem[resp.task_id] = tasks[resp.task_id]
        /\ resp = Snapshot(resp.task_id, tasks[resp.task_id])
        /\ Record(resp.status, resp.progress) =
               hist[resp.task_id][Len(hist[resp.task_id])]
        /\ resp.status = "completed" =>
               resp.progress = 100 /\ resp.result_url /= NoUrl
        /\ resp.status = "failed" => resp.error /= NoError

\* a snapshot is served while a worker runs the call of that task and the
\* executor of another task stands before its first block
C11_Witness ==
    /\ resp.kind = "status"
    /\ job[resp.task_id].st = "running"
    /\ \E u \in Ids : pc[u] = <<"start", "acquire">>

\* what the outcomes of task t alone make of its record
OwnOutcome(t) ==
    /\ Record(tasks[t].status, tasks[t].progress) = hist[t][Len(hist[t])]
    /\ tasks[t].status = "completed" =>
           /\ tasks[t].result_path = OutputPath(t, args[t].format)
           /\ tasks[t].result_path[2] = t
           /\ tasks[t].error = NoError
    /\ tasks[t].status = "failed" =>
           /\ tasks[t].error = exc[t]
           /\ tasks[t].message = <<"Generation failed: ", exc[t]>>
           /\ tasks[t].result_path = NoPath
    /\ tasks[t].status \in {"pending", "processing"} =>
           tasks[t].result_path = NoPath /\ tasks[t].error = NoError

\* a step changes the record of t only if the executor of t takes it from
\* inside one of its blocks, and a step of get_task_status changes no record
FrameStep ==
    /\ \A t \in DOMAIN tasks :
          tasks'[t] /= tasks[t] \/ mem'[t] /= mem[t] =>
              /\ running = Exec(t)
              /\ lock = Exec(t)
              /\ pc'[t] /= pc[t]
              /\ \A u \in DOMAIN tasks \ {t} :
                    tasks'[u] = tasks[u] /\ mem'[u] = mem[u]
    /\ running = Reader \/ running' = Reader => tasks' = tasks /\ mem' = mem

\* C12: every write of the executor of task t changes the record of t only,
\* get_task_status changes no record, every record is what the stage
\* outcomes of its own task make of it, and a completed record's result_path
\* names its own task id.
C12_OwnRecordOnly ==
    /\ [](\A t \in DOMAIN tasks : OwnOutcome(t))
    /\ [][FrameStep]_vars

\* the executor of task 1 has just written completion while task 2 is in
\* flight with a worker call of its own handed over
C12_Witness ==
    /\ DOMAIN tasks = Ids
    /\ pc[1] = <<"complete", "release">>
    /\ tasks[1].status = "completed"
    /\ tasks[2].status = "processing"
    /\ job[2].kind /= "none"

Spec == Init /\ [][Next]_vars

\* C13: under fair scheduling, with the worker pool shared by all tasks and
\* every enhancement, generation and export call returning or raising, every
\* task that create_task has recorded eventually is completed or failed.
C13_EveryTaskTerminates ==
    \A t \in Ids :
        (t \in DOMAIN tasks) ~>
            (t \in DOMAIN tasks /\ tasks[t].status \in Terminal)

\* both tasks went through the one worker; one failed, the other completed
C13_Witness ==
    /\ DOMAIN tasks = Ids
    /\ tasks[1].status = "failed"
    /\ tasks[2].status = "completed"
    /\ Len(genCalls[1]) = 1
    /\ exportCalls[2] = 1

Generating(t) == job[t].kind = "generate" /\ job[t].st = "running"

\* the record update of the block the executor of u is in
UpdateOf(u) ==
    \/ UpdateStart(u)
    \/ UpdateEnhancing(u)
    \/ UpdateGenerating(u)
    \/ UpdateExporting(u)
    \/ UpdateCompleted(u)
    \/ UpdateFailed(u)

\* C14: while the generate call of a task executes, a worker thread runs it:
\* its coroutine is suspended at the await and holds neither the event loop
\* nor the lock, so that get_task_status can enter whenever the loop is idle
\* and the executor of another task can start and write its record.
C14_GenerateOffLoop ==
    \A t \in Ids :
        Generating(t) =>
            /\ At(t, "generate", "await")
            /\ running /= Exec(t)
            /\ lock /= Exec(t)
            /\ running = NoOne => \A id \in Ids : ENABLED StatusEnter(id)
            /\ \A u \in Ids \ {t} :
                  /\ running = NoOne /\ At(u, "start", "acquire")
                         => ENABLED Acquire(u)
                  /\ running = Exec(u) /\ pc[u][2] = "update"
                         => ENABLED UpdateOf(u)

\* while a worker runs the generate call of task 1, the executor of task 2
\* has started and written its record
C14_Witness ==
    /\ Generating(1)
    /\ pc[2] = <<"start", "release">>
    /\ access.op = "_run_task"
    /\ tasks[2].status = "processing"

\* an enhancement, generation or export call of t has been made and has not
\* returned or raised yet
StageCallInProgress(t) == At(t, "enhance", "return") \/ job[t].st = "running"

\* C15: at every point of a task's execution, its enhancement, generation
\* and export calls included, the event loop is not occupied by the stage
\* call, so that a get_task_status request can enter as soon as the loop is
\* idle instead of waiting for the call to return.
C15_StatusServedDuringStages ==
    \A t \in Ids :
        StageCallInProgress(t) =>
            /\ running /= Exec(t)
            /\ running = NoOne => \A id \in Ids : ENABLED StatusEnter(id)

\* C16: the lock is held only for an in-memory record update or snapshot
\* read: it is free whenever the event loop is idle (no holder is suspended
\* at an await), the executor that holds it is inside one of its blocks with
\* no enhancement, generation or export call of its own made or pending,
\* and the other holders are create_task storing a record and
\* get_task_status reading one.
C16_LockOnlyForRecordAccess ==
    /\ running = NoOne => lock = Free
    /\ lock /= Free => lock = running
    /\ \A t \in Ids :
          lock = Exec(t) =>
              /\ pc[t][1] \in LockBlocks
              /\ pc[t][2] \in {"update", "release"}
              /\ ~StageCallInProgress(t)
              /\ job[t].st \notin {"queued", "running"}
    /\ lock = Handler => handler.pc \in {"locked", "created"}
    /\ lock = Reader => reader /= 0
    /\ lock \in {Free, Handler, Reader} \cup {Exec(t) : t \in Ids}

\* the executor of task 2 holds the lock for a record update while a worker
\* runs the export call of task 1
C16_Witness ==
    /\ lock = Exec(2)
    /\ At(2, "gen", "update")
    /\ job[1].kind = "export"
    /\ job[1].st = "running"

\* malformed input: format outside {xyz, obj, ply, stl}, guidance scale
\* outside [1, 50] (in tenths), step count outside [1, 256], point cap below 1
Malformed(f) ==
    \/ f.format \notin {"xyz", "obj", "ply", "stl"}
    \/ f.guidance_scale < 10
    \/ f.guidance_scale > 500
    \/ f.karras_steps < 1
    \/ f.karras_steps > 256
    \/ \E i \in DOMAIN f.max_points : f.max_points[i] < 1

MalformedInFlight == form /= NoForm /\ Malformed(form)

\* C17: a submission with malformed input is rejected in the step that
\* submits it (answer 422, create_task not entered), no step taken while it
\* is in flight adds or changes a record or starts an executor, and every
\* submission create_task works on is well formed.
C17_MalformedRejected ==
    /\ [](MalformedInFlight =>
             /\ resp = [kind |-> "http_error", code |-> 422]
             /\ running = Validator
             /\ handler = IdleHandler)
    /\ [](handler.pc /= "idle" => form /= NoForm /\ ~Malformed(form))
    /\ [](\A t \in Ids :
             Spawned(t) => args[t].format \in {"xyz", "obj", "ply", "stl"})
    /\ [][MalformedInFlight \/ MalformedInFlight' =>
             tasks' = tasks /\ mem' = mem /\ pc' = pc /\ lock' = lock]_vars

\* a request with karras_steps = 257 is answered 422 while the registry
\* holds the record of an accepted one
C17_Witness ==
    /\ form.karras_steps = 257
    /\ resp = [kind |-> "http_error", code |-> 422]
    /\ DOMAIN tasks = {1}

\* C18: a snapshot of get_task_status carries a result_url exactly when its
\* status is completed, and get_result_path returns a path only for a task
\* whose status is completed (the path of that task's record).
C18_ReferenceOnlyWhenCompleted ==
    /\ resp.kind = "status" =>
           (resp.result_url /= NoUrl <=> resp.status = "completed")
    /\ resp.kind = "result_path" /\ resp.path /= NoPath =>
           /\ resp.task_id \in DOMAIN tasks
           /\ tasks[resp.task_id].status = "completed"
           /\ resp.path = tasks[resp.task_id].result_path

\* a snapshot with a result_url is returned for a completed task while the
\* other task has failed and a snapshot of it would carry none
C18_Witness ==
    /\ resp.kind = "status"
    /\ resp.result_url /= NoUrl
    /\ \E u \in DOMAIN tasks : tasks[u].status = "failed"

\* C19: get_task_status called with an id that create_task has not returned
\* answers not found (None, 404 in the route) and nothing else, it answers
\* not found for no id of the registry, and no step of it changes the
\* registry.
C19_UnknownIdNotFound ==
    /\ [](reader /= 0 /\ reader \notin DOMAIN tasks /\ resp /= NoResp =>
              resp = [kind |-> "not_found", task_id |-> reader])
    /\ [](resp.kind = "not_found" => resp.task_id \notin DOMAIN tasks)
    /\ [][running = Reader \/ running' = Reader =>
              tasks' = tasks /\ mem' = mem]_vars

\* the id of task 2 is asked for while only task 1 has been created
C19_Witness ==
    /\ resp = [kind |-> "not_found", task_id |-> 2]
    /\ DOMAIN tasks = {1}
    /\ running = Reader

\* C20: for every task, export is handed to a worker and invoked only once
\* generate has been called and has returned a mesh to the executor, and it
\* is invoked at most once.
C20_ExportAfterGenerate ==
    \A t \in Ids :
        /\ exportCalls[t] <= 1
        /\ job[t].kind = "export" \/ exportCalls[t] > 0 =>
               /\ result[t] = "mesh"
               /\ Len(genCalls[t]) = 1
               /\ exc[t] \notin GenErrors
        /\ result[t] = "mesh" => Len(genCalls[t]) = 1
        /\ job[t].kind = "generate" => exportCalls[t] = 0

\* both tasks have had their export invoked after their generate returned
C20_Witness ==
    \A t \in Ids :
        exportCalls[t] = 1 /\ result[t] = "mesh" /\ job[t].kind = "export"

\* C21: the set of task ids in the registry only grows: no step removes a
\* record that create_task has added, and get_task_status asked for an id
\* of the registry never answers not found.
C21_RegistryOnlyGrows ==
    /\ [][/\ DOMAIN tasks \subseteq DOMAIN tasks'
          /\ DOMAIN mem \subseteq DOMAIN mem'
          /\ DOMAIN tasks' = DOMAIN mem']_vars
    /\ [](reader \in DOMAIN tasks /\ resp /= NoResp =>
              resp.kind = "status" /\ resp.task_id = reader)

\* the record of a task whose executor has ended after a failure is still
\* read by get_task_status
C21_Witness ==
    /\ resp.kind = "status"
    /\ resp.status = "failed"
    /\ pc[resp.task_id] = <<"done", "">>
    /\ DOMAIN tasks = Ids

\* C23: for every completed task, result_path is output_dir/<task_id>.<format>
\* for its own id and requested format, the result_url of its snapshot is
\* /api/files/<task_id>.<format>, and the filename of that URL, handed to
\* download_file, names exactly the file at result_path, which export has
\* written in full; a download under that name serves that file.
C23_PathUrlRoundTrip ==
    /\ \A t \in DOMAIN tasks :
          tasks[t].status = "completed" =>
              LET url == Snapshot(t, tasks[t]).result_url IN
              /\ tasks[t].result_path = <<output_dir, t, args[t].format>>
              /\ url = <<"/api/files", <<t, args[t].format>>>>
              /\ FilePath(UrlFilename(url)) = tasks[t].result_path
              /\ FileExists(UrlFilename(url))
              /\ files[t] = "complete"
    /\ resp.kind = "file" /\ resp.filename[1] \in DOMAIN tasks
       /\ tasks[resp.filename[1]].status = "completed" =>
           /\ FilePath(resp.filename) = tasks[resp.filename[1]].result_path
           /\ resp.content = "complete"

\* the file of a completed task is downloaded under the filename of its URL
C23_Witness ==
    /\ resp.kind = "file"
    /\ resp.filename[1] \in DOMAIN tasks
    /\ tasks[resp.filename[1]].status = "completed"
    /\ resp.filename =
           UrlFilename(Snapshot(resp.filename[1],
                                tasks[resp.filename[1]]).result_url)

\* the path p does not lie in the output directory /srv/outputs
Escapes(p) == Len(p) < 2 \/ p[1] /= "srv" \/ p[2] /= "outputs"

\* C22: for every requested filename whose resolved path lies outside the
\* output directory, download_file answers 404 or 403, and every file it
\* serves resolves into the output directory.
C22_EscapingPathsRefused ==
    served /= NoServed =>
        /\ Escapes(ResolvePath(disk, served.request)) =>
               /\ served.response.kind = "http_error"
               /\ served.response.code \in {403, 404}
        /\ served.response.kind = "file" =>
               ~Escapes(served.response.path)

\* b.obj is a link to /etc/passwd and is refused with 403, while the
\* regular file a.obj would be served
C22_Witness ==
    /\ served.request = "b.obj"
    /\ disk["b.obj"] = [kind |-> "link",
                        target |-> [path |-> <<"etc", "passwd">>,
                                    kind |-> "file"]]
    /\ served.response = [kind |-> "http_error", code |-> 403]
    /\ disk["a.obj"].kind = "file"

\* ------------------------------------------- download_file on any directory
\* the task lifecycle at rest, the output directory in any state
FilesInit ==
    /\ InitTasks
    /\ pipeline = [vlm |-> FALSE, available |-> FALSE]
    /\ disk \in [DiskNames -> DiskEntries]
    /\ served = NoServed
    /\ poll = NoPoll
    /\ built = NoBuilt
    /\ decoded = NoDecoded
    /\ app = NoApp

FilesNext ==
    \/ \E n \in RequestNames : ServeFile(n)
    \/ ServeReturn

FilesSpec == FilesInit /\ [][FilesNext]_vars

\* generate has ended and every status check it made came back with a
\* status that is neither completed nor failed
OnlyNonTerminal ==
    /\ poll.pc = "done"
    /\ poll.task_id /= None
    /\ poll.sleeps = poll.checks

\* C24: a call of generate always ends, and when every status check came
\* back non-terminal it ends by raising "Generation timed out", with at
\* least MaxWait seconds gone since polling began.
C24_PollerTimesOut ==
    /\ <>(poll.pc = "done")
    /\ [](OnlyNonTerminal =>
              /\ poll.outcome.kind = "raise"
              /\ poll.outcome.type = "RuntimeError"
              /\ poll.outcome.msg = TimedOutMessage
              /\ poll.now - poll.start_time >= MaxWait)

C24_Witness ==
    /\ OnlyNonTerminal
    /\ poll.checks = MaxWait \div PollInterval
    /\ poll.outcome.msg = TimedOutMessage

\* the four classifications _check_status promises (api_base.py 69-70)
NormalStatuses == {"pending", "processing", "completed", "failed"}

\* C25: the status a status check hands to generate is one of pending,
\* processing, completed and failed, whatever status string the service of
\* either backend sent.
C25_StatusNormalised ==
    "status" \in DOMAIN poll.status_info =>
        poll.status_info["status"] \in NormalStatuses

\* C34: the write that makes a task failed leaves progress and result_path
\* as they were and changes status, error and message only, in the record
\* the block installs and in the dictionary at every statement of the
\* block; a failed task therefore shows the progress of the last stage it
\* reached, below 1.0, and no result_path, also when export raised after it
\* had begun to write the file.
C34_FailedWriteFrame ==
    /\ [][\A t \in DOMAIN tasks :
              tasks'[t].status = "failed" /\ tasks[t].status /= "failed" =>
                  /\ tasks'[t].progress = tasks[t].progress
                  /\ tasks'[t].result_path = tasks[t].result_path
                  /\ tasks'[t].error = exc[t]
                  /\ tasks'[t].message = <<"Generation failed: ", exc[t]>>
                  /\ mem'[t].progress = mem[t].progress
                  /\ mem'[t].result_path = mem[t].result_path]_vars
    /\ [][\A t \in DOMAIN mem :
              mem[t].status = "failed" =>
                  /\ mem'[t].status = "failed"
                  /\ mem'[t].progress = mem[t].progress
                  /\ mem'[t].result_path = mem[t].result_path]_vars
    /\ [](\A t \in DOMAIN tasks :
              tasks[t].status = "failed" =>
                  /\ tasks[t].progress \in {10, 20, 80}
                  /\ tasks[t].result_path = NoPath
                  /\ mem[t].progress = tasks[t].progress
                  /\ mem[t].result_path = NoPath)

C34_Witness ==
    \E t \in DOMAIN tasks :
        /\ tasks[t].status = "failed"
        /\ mem[t].message = <<"Generation failed: ", tasks[t].error>>
        /\ tasks[t].progress = 80
        /\ files[t] = "partial"

\* the last status check came back completed with a result reference
CompletedWithReference ==
    /\ "status" \in DOMAIN poll.status_info
    /\ poll.status_info["status"] = "completed"
    /\ ~Falsy(Get(poll.status_info, "result_url", None))

\* C26: once a status check has come back completed with a result
\* reference, after k checks that came back non-terminal, no further status
\* check is made and generate ends; it ends with exactly k + 1 checks and one
\* download made, and what it returns is the mesh decoded, in the format the
\* check named, from the content downloaded from that reference.
C26_CompletedReturnsMesh ==
    /\ [][CompletedWithReference => poll'.checks = poll.checks]_vars
    /\ (CompletedWithReference ~> poll.pc = "done")
    /\ [](CompletedWithReference /\ poll.pc = "done" =>
              /\ poll.checks = poll.sleeps + 1
              /\ poll.downloads = 1
              /\ \/ /\ poll.outcome.kind = "raise"
                    /\ poll.outcome.at \in {"download", "parse"}
                 \/ /\ poll.outcome.kind = "return"
                    /\ poll.parses = 1
                    /\ poll.outcome.value =
                           MeshResult(Content(poll.status_info["result_url"]),
                                      Get(poll.status_info, "format", "obj")))
    /\ [](poll.pc = "done" /\ poll.outcome.kind = "return" =>
              CompletedWithReference)

C26_Witness ==
    /\ poll.pc = "done"
    /\ poll.outcome.kind = "return"
    /\ poll.sleeps = (MaxWait \div PollInterval) - 1
    /\ poll.checks = MaxWait \div PollInterval
    /\ poll.outcome.value = MeshResult(Content(Url2), "obj")

\* what the caller of generate receives from an exception: its type and text
Seen(outcome) == <<outcome.type, outcome.msg>>

\* C27: the exception raised when the wait budget has elapsed and the
\* exception raised when a status check came back failed never look the
\* same to the caller, whatever error text the backend sent: the first
\* always carries the time-out text, the second never does, and the second
\* carries the backend's text behind the prefix "Generation failed: ".
C27_TimeoutDistinctFromFailure ==
    poll.pc = "done" /\ poll.outcome.kind = "raise" =>
        /\ poll.outcome.at = "budget" =>
               /\ Seen(poll.outcome) = <<"RuntimeError", TimedOutMessage>>
               /\ \A e \in ErrorTexts \cup {"Generation failed", "Unknown error"} :
                      Seen(poll.outcome) /= <<"RuntimeError", FailedMessage(e)>>
        /\ poll.outcome.at = "failed" =>
               /\ Seen(poll.outcome) /= <<"RuntimeError", TimedOutMessage>>
               /\ poll.outcome.msg =
                      FailedMessage(poll.status_info["error"])

C27_Witness ==
    /\ poll.pc = "done"
    /\ poll.outcome.kind = "raise"
    /\ poll.outcome.at = "failed"
    /\ poll.status_info["error"] = TimedOutMessage

\* the last status check came back completed with no result reference
CompletedWithoutReference ==
    /\ "status" \in DOMAIN poll.status_info
    /\ poll.status_info["status"] = "completed"
    /\ Falsy(Get(poll.status_info, "result_url", None))

\* C28: after a status check that came back completed without a result
\* reference generate calls neither the download nor the decoding, and it
\* ends with the "completed but no result URL" error, whose text is not that
\* of any remote-failed error.
C28_CompletedWithoutResult ==
    /\ [](CompletedWithoutReference =>
              /\ poll.pc \in {"branch", "done"}
              /\ poll.downloads = 0
              /\ poll.parses = 0
              /\ poll.pc = "done" =>
                     /\ poll.outcome.kind = "raise"
                     /\ Seen(poll.outcome) = <<"RuntimeError", NoResultMessage>>
                     /\ \A e \in ErrorTexts \cup {"Generation failed",
                                                  "Unknown error"} :
                            poll.outcome.msg /= FailedMessage(e))
    /\ (CompletedWithoutReference ~> poll.pc = "done")

C28_Witness ==
    /\ CompletedWithoutReference
    /\ poll.pc = "done"
    /\ poll.outcome.at = "no_result"
    /\ poll.status_info["result_url"] = None
    /\ poll.sleeps > 0

\* C29: when the submission has been made and has given generate no job id,
\* because the request raised or the answer held no id, generate has ended
\* with that error and has made no status check, no download and no
\* decoding; polling only ever runs with a job id.
C29_SubmitFailsFast ==
    /\ poll.submits = 1 /\ Falsy(poll.task_id) =>
           /\ poll.pc = "done"
           /\ poll.outcome.kind = "raise"
           /\ poll.outcome.at = "submit"
           /\ poll.checks = 0
           /\ poll.downloads = 0
           /\ poll.parses = 0
    /\ poll.checks > 0 => ~Falsy(poll.task_id)

C29_Witness ==
    /\ poll.submits = 1
    /\ poll.pc = "done"
    /\ poll.backend = "instant3d"
    /\ poll.outcome.msg = "No task ID returned from API"

\* a step that starts a status check
CheckStarts == poll'.checks = poll.checks + 1

\* C30: every status check starts with less than MaxWait seconds gone since
\* polling began; each check after the first starts exactly PollInterval
\* seconds after the one before it returned, one sleep having been made in
\* between; and while all checks were instantaneous at most
\* MaxWait / PollInterval = 60 checks are made.
C30_PollSpacingAndBudget ==
    /\ [][CheckStarts =>
              /\ poll.now - poll.start_time < MaxWait
              /\ poll.sleeps = poll.checks
              /\ poll.checks > 0 =>
                     poll.now = poll.check_end + PollInterval]_vars
    /\ [](poll.instant => poll.checks <= MaxWait \div PollInterval)

C30_Witness ==
    /\ poll.pc = "check"
    /\ poll.instant
    /\ poll.checks = MaxWait \div PollInterval
    /\ poll.now - poll.start_time = MaxWait - PollInterval

\* the last status check came back failed
FailedCheck ==
    /\ "status" \in DOMAIN poll.status_info
    /\ poll.status_info["status"] = "failed"

\* C32: after a status check that came back failed with error text e no
\* further status check, download or decoding is made, and generate ends
\* with a RuntimeError whose text is "Generation failed: " followed by e as
\* the check returned it.
C32_FailedSurfacesErrorText ==
    /\ [][FailedCheck => poll'.checks = poll.checks]_vars
    /\ (FailedCheck ~> poll.pc = "done")
    /\ [](FailedCheck =>
              /\ poll.pc \in {"branch", "done"}
              /\ poll.downloads = 0
              /\ poll.parses = 0
              /\ poll.status_info["error"]
                     \in ErrorTexts \cup {"Generation failed"}
              /\ poll.pc = "done" =>
                     /\ poll.outcome.kind = "raise"
                     /\ poll.outcome.type = "RuntimeError"
                     /\ poll.outcome.msg =
                            "Generation failed: " \o poll.status_info["error"])

C32_Witness ==
    /\ FailedCheck
    /\ poll.pc = "done"
    /\ poll.sleeps > 0
    /\ poll.outcome.msg = "Generation failed: quota exceeded"

\* C35: generate raises the time-out error only after at least one status
\* check, and a check that was started within the budget and came back
\* completed or failed is acted on, never answered with the time-out error,
\* even when the budget has run out by the time it came back.
C35_TimeoutOnlyAfterCheck ==
    /\ [](poll.pc = "done" /\ poll.outcome.kind = "raise"
              /\ poll.outcome.at = "budget" =>
                  /\ poll.checks >= 1
                  /\ poll.sleeps = poll.checks)
    /\ [][poll.pc = "branch"
              /\ poll.status_info["status"] \in {"completed", "failed"} =>
                  /\ poll'.pc \in {"download", "done"}
                  /\ poll'.pc = "done" =>
                         poll'.outcome.at \in {"no_result", "failed"}]_vars

C35_Witness ==
    /\ poll.pc = "done"
    /\ poll.outcome.kind = "return"
    /\ poll.now - poll.start_time >= MaxWait

\* C36: when a status check, the download or the decoding has raised,
\* generate has ended with that very exception: it raised only once, the
\* call that raised was the last of its kind, no status check followed and
\* no later step was made.
C36_ExceptionPropagates ==
    poll.raised > 0 =>
        /\ poll.raised = 1
        /\ poll.pc = "done"
        /\ poll.outcome.kind = "raise"
        /\ poll.outcome.at \in {"check", "download", "parse"}
        /\ poll.checks = poll.sleeps + 1
        /\ poll.outcome.at = "check" =>
               /\ Seen(poll.outcome) = <<"HTTPError", HttpError.text>>
               /\ poll.downloads = 0
               /\ poll.parses = 0
        /\ poll.outcome.at = "download" =>
               /\ Seen(poll.outcome) = <<"HTTPError", HttpError.text>>
               /\ poll.downloads = 1
               /\ poll.parses = 0
        /\ poll.outcome.at = "parse" =>
               /\ poll.outcome.type = "RuntimeError"
               /\ poll.downloads = 1
               /\ poll.parses = 1

C36_Witness ==
    /\ poll.raised = 1
    /\ poll.outcome.at = "check"
    /\ poll.sleeps = 2
    /\ poll.now - poll.start_time < MaxWait

\* the generator has no key, or one of white space only
NoUsableKey == poll.api_key \in {None, "", "  "}

\* C37: a generator without a non-blank API key makes no submission, no
\* status check, no download and no decoding, and its generate ends at its
\* first step with the RuntimeError "<class> is not available. Check API
\* key."; no generator with a key ends that way.
C37_UnavailableRaisesFirst ==
    /\ NoUsableKey =>
           /\ poll.submits = 0
           /\ poll.checks = 0
           /\ poll.downloads = 0
           /\ poll.parses = 0
           /\ poll.pc \in {"idle", "call", "done"}
           /\ poll.pc = "done" =>
                  /\ poll.outcome.kind = "raise"
                  /\ poll.outcome.type = "RuntimeError"
                  /\ poll.outcome.msg \in
                         {"Neural4DGenerator is not available. Check API key.",
                          "Instant3DGenerator is not available. Check API key."}
    /\ poll.pc = "done" /\ poll.outcome.kind = "raise"
           /\ poll.outcome.at = "unavailable" => NoUsableKey

C37_Witness ==
    /\ poll.api_key = "  "
    /\ poll.pc = "done"
    /\ poll.outcome.msg = "Instant3DGenerator is not available. Check API key."

\* the quality level the claim names for a step count
QualityFor(k) ==
    IF k <= 64 THEN "fast" ELSE IF k >= 128 THEN "high" ELSE "standard"

\* C38: for a config with any step count from 1 to 256 each backend's
\* request carries the quality fast for at most 64 steps, high for at least
\* 128 and standard in between, so the two backends' requests carry the
\* same quality.
C38_SameQuality ==
    built.config /= <<>> =>
        /\ \A b \in DOMAIN built.requests :
               built.requests[b]["quality"] = QualityFor(built.config[1])
        /\ DOMAIN built.requests = Backends =>
               built.requests["neural4d"]["quality"] =
                   built.requests["instant3d"]["quality"]

C38_Witness ==
    /\ DOMAIN built.requests = Backends
    /\ built.config = <<100>>
    /\ built.requests["neural4d"]["quality"] = "standard"
    /\ built.requests["instant3d"]["quality"] = "standard"

\* the three paths of the claim; a path applies to a response that holds
\* its keys: vertices and faces, file or mesh, url or download_url
DirectApplies(r) == {"vertices", "faces"} \subseteq DOMAIN r
FileApplies(r) == {"file", "mesh"} \cap DOMAIN r /= {}
UrlApplies(r) == {"url", "download_url"} \cap DOMAIN r /= {}

\* C31: the decoder takes the direct path when the response holds vertices
\* and faces, else the encoded-file path when it holds file or mesh, else
\* the URL path when it holds url or download_url; it raises the "not
\* recognized" error only for a response to which none of the three applies;
\* and a response that holds encoded file content and not both vertices and
\* faces is decoded from that content whenever the file can be read.
C31_DecodePathOrder ==
    decoded.outcome /= NoOutcome =>
        LET r == decoded.response
            out == decoded.outcome
        IN  /\ DirectApplies(r) =>
                   /\ out.kind = "return"
                   /\ out.at = "direct"
                   /\ out.value.vertices = r["vertices"]
                   /\ out.value.faces = r["faces"]
            /\ ~DirectApplies(r) /\ FileApplies(r) => out.at = "file"
            /\ ~DirectApplies(r) /\ ~FileApplies(r) /\ UrlApplies(r) =>
                   out.at = "url"
            /\ out.kind = "raise" /\ out.msg = UnrecognizedMessage =>
                   ~DirectApplies(r) /\ ~FileApplies(r) /\ ~UrlApplies(r)
            /\ ~DirectApplies(r) /\ out.kind = "return"
                   /\ (\E k \in {"file", "mesh"} :
                           k \in DOMAIN r /\ r[k] /= None) =>
                   \E k \in {"file", "mesh"} :
                       /\ k \in DOMAIN r
                       /\ out.value.decoded_from = B64Decode(ValueOf(k))

C31_Witness ==
    /\ DOMAIN decoded.response = {"mesh"}
    /\ decoded.outcome.kind = "return"
    /\ decoded.outcome.at = "file"
    /\ decoded.outcome.value.decoded_from = B64Decode(ValueOf("mesh"))

PollInit ==
    /\ InitTasks
    /\ pipeline = [vlm |-> FALSE, available |-> FALSE]
    /\ disk = NoDisk
    /\ served = NoServed
    /\ poll \in {[NoPoll EXCEPT !.pc = "call", !.backend = b, !.api_key = k] :
                     b \in Backends, k \in ApiKeys}
    /\ built = NoBuilt
    /\ decoded = NoDecoded
    /\ app = NoApp

PollNext ==
    \/ PollUnavailable
    \/ \E r \in SubmitResponses, d \in SubmitDurations : PollSubmit(r, d)
    \/ PollLoopTest
    \/ \E r \in StatusResponses, d \in CheckDurations : PollCheck(r, d)
    \/ PollCompleted
    \/ \E ok \in BOOLEAN : PollDownload(ok)
    \/ \E ok \in BOOLEAN : PollParse(ok)
    \/ PollFailed
    \/ PollSleep

\* generate runs in one thread from statement to statement, and each of its
\* remote calls has a timeout: every step that can be taken is taken
PollSpec == PollInit /\ [][PollNext]_vars /\ WF_vars(PollNext)

\* -------------------------------------------- the backends' request builders
\* everything else at rest; either backend builds its request for any config
RequestInit ==
    /\ InitTasks
    /\ pipeline = [vlm |-> FALSE, available |-> FALSE]
    /\ disk = NoDisk
    /\ served = NoServed
    /\ poll = NoPoll
    /\ built \in {[NoBuilt EXCEPT !.config = c] : c \in Configs}
    /\ decoded = NoDecoded
    /\ app = NoApp

RequestNext == \E b \in Backends : BuildRequest(b)

RequestSpec == RequestInit /\ [][RequestNext]_vars

\* ------------------------------------------------- decoding a response
\* everything else at rest; the decoder is called with any response
DecodeInit ==
    /\ InitTasks
    /\ pipeline = [vlm |-> FALSE, available |-> FALSE]
    /\ disk = NoDisk
    /\ served = NoServed
    /\ poll = NoPoll
    /\ built = NoBuilt
    /\ decoded \in {[NoDecoded EXCEPT !.response = r] : r \in Responses}
    /\ app = NoApp

DecodeNext == \E ok \in BOOLEAN : Decode(ok)

DecodeSpec == DecodeInit /\ [][DecodeNext]_vars

\* ------------------------------------------------- the routes and get_pipeline
\* everything else at rest; shap-e is installed or it is not, and the routes
\* that call get_pipeline are requested in any order
AppInit ==
    /\ InitTasks
    /\ pipeline = [vlm |-> FALSE, available |-> FALSE]
    /\ disk = NoDisk
    /\ served = NoServed
    /\ poll = NoPoll
    /\ built = NoBuilt
    /\ decoded = NoDecoded
    /\ app \in {[NoApp EXCEPT !.available = b] : b \in BOOLEAN}

AppNext ==
    \/ HealthCheck
    \/ \E route \in {"generate_3d", "generate_3d_json"} : GenerateRoute(route)

AppSpec == AppInit /\ [][AppNext]_vars

\* ---------------------------------------------------------------- fairness
\* the unit that occupies the event loop goes on to its next statement
LoopStep ==
    \/ CreateRecord
    \/ SpawnRunTask
    \/ CreateTaskReturn
    \/ BuildResponse
    \/ HandlerExit
    \/ StatusRead
    \/ RouteReturn
    \/ \E t \in Ids :
          \/ Release(t)
          \/ UpdateStart(t)
          \/ UpdateEnhancing(t)
          \/ EnhanceCall(t)
          \/ \E x \in EnhancedTexts : EnhanceReturn(t, x)
          \/ \E e \in EnhanceErrors : EnhanceRaise(t, e)
          \/ UpdateGenerating(t)
          \/ SubmitGenerate(t)
          \/ UpdateExporting(t)
          \/ SubmitExport(t)
          \/ UpdateCompleted(t)
          \/ UpdateFailed(t)

\* a worker thread of the pool takes the queued call of t, and the call it
\* runs returns or raises
WorkerStep(t) ==
    \/ GenerateStart(t)
    \/ GenerateReturn(t)
    \/ \E e \in GenErrors : GenerateRaise(t, e)
    \/ ExportStart(t)
    \/ ExportOpen(t)
    \/ ExportReturn(t)
    \/ \E e \in ExportErrors : ExportRaise(t, e)

\* the event loop gives the coroutine of t its turn: started after
\* asyncio.create_task, or resumed once the future it awaits is done
Wake(t) == Acquire(t) \/ ResumeAfterGenerate(t) \/ ResumeAfterExport(t)

\* asyncio runs ready callbacks in FIFO order, so a coroutine that is ready
\* again and again gets its turn (SF); the unit on the loop and the worker
\* threads keep running (WF)
FairSpec ==
    /\ Init
    /\ [][Next]_vars
    /\ WF_vars(LoopStep)
    /\ \A t \in Ids : WF_vars(WorkerStep(t))
    /\ \A t \in Ids : SF_vars(Wake(t))
====
